---- MODULE Spec2Model ----
(***************************************************************************)
(* Model of the data-acquisition layer (source registry with priority     *)
(* failover), the analysis engine's history fetch and the retail strategy  *)
(* boundary of the stock_analysis repository.                              *)
(***************************************************************************)
EXTENDS Integers, Sequences, FiniteSets, TLC

VARIABLES
    created,         \* factory._global_manager is not None
    config,          \* the configuration read when the manager was built: enabled adapter -> priority
    sources,         \* DataSourceManager.sources, in dict insertion order
    primary_source,  \* DataSourceManager.primary_source ("None" when unset)
    is_connected,    \* BaseDataSource.is_connected of every registered adapter
    instance,        \* identity of the object factory._global_manager holds (0 for None)
    built,           \* how many DataSourceManager objects get_data_source_manager has built
    ready,           \* the primary selection has run on the manager _global_manager holds
    threads,         \* position and locals of every thread inside get_data_source_manager
    last             \* what the most recent call did and returned

vars == <<created, config, sources, primary_source, is_connected, instance, built, ready,
          threads, last>>

(***************************************************************************)
(* Bounds                                                                  *)
(***************************************************************************)
\* how many of the six adapter types a configuration may enable
MaxSources == 3
\* configured priorities range over 1..MaxPriority
MaxPriority == 2
\* how many managers the process builds over its life (one more after every reset)
MaxBuilds == 2
\* how many threads call get_data_source_manager at the same time
MaxThreads == 2

(***************************************************************************)
(* Helpers                                                                 *)
(***************************************************************************)
None == "None"

Min(a, b) == IF a < b THEN a ELSE b

Range(s) == {s[i] : i \in 1..Len(s)}

Pos(s, x) == CHOOSE i \in 1..Len(s) : s[i] = x

\* the adapter types, enabled by a configuration in this order of preference
Candidates == <<"eastmoney", "tushare", "sina", "qqstock", "akshare", "wangyi">>

Names == {Candidates[i] : i \in 1..Min(MaxSources, Len(Candidates))}

Priorities == 1..MaxPriority

\* A configuration: the adapters it enables, each with its priority number
\* (lower = preferred); every adapter outside the domain is 'enabled': False.
Configs == UNION {[E -> Priorities] : E \in SUBSET Names}

(***************************************************************************)
(* factory.py                                                              *)
(***************************************************************************)
\* insertion order of default_config: the order sorted() keeps among equal priorities
DefaultOrder == <<"akshare", "tushare", "eastmoney", "sina", "qqstock", "wangyi">>

\* the literal priority_order list of get_data_source_manager
PriorityOrder == <<"eastmoney", "tushare", "akshare", "sina", "qqstock", "wangyi">>

\* sorted(default_config.items(), key=priority): a stable sort
SortsBefore(cfg, a, b) ==
    \/ cfg[a] < cfg[b]
    \/ cfg[a] = cfg[b] /\ Pos(DefaultOrder, a) < Pos(DefaultOrder, b)

RECURSIVE SortedSources(_, _)
SortedSources(cfg, S) ==
    IF S = {} THEN <<>>
    ELSE LET m == CHOOSE a \in S : \A b \in S \ {a} : SortsBefore(cfg, a, b)
         IN  <<m>> \o SortedSources(cfg, S \ {m})

(***************************************************************************)
(* base.py: DataSourceManager                                              *)
(***************************************************************************)
\* a manager value: [sources, primary_source]
NewManager == [sources |-> <<>>, primary_source |-> None]

AddSourceKeepsPrimaryUnset(mgr, name) ==
    [sources |-> IF name \in Range(mgr.sources) THEN mgr.sources
                 ELSE Append(mgr.sources, name),
     primary_source |-> mgr.primary_source]

\* DataSourceManager.add_source
AddSource(mgr, name) ==
    [sources |-> IF name \in Range(mgr.sources) THEN mgr.sources
                 ELSE Append(mgr.sources, name),
     primary_source |-> IF mgr.primary_source = None THEN name
                        ELSE mgr.primary_source]

RECURSIVE AddAll(_, _)
AddAll(mgr, names) ==
    IF names = <<>> THEN mgr
    ELSE AddAll(AddSource(mgr, Head(names)), Tail(names))

\* DataSourceFactory.create_data_source_manager: the enabled adapters are
\* added in ascending priority order
CreateDataSourceManager(cfg) ==
    AddAll(NewManager, SortedSources(cfg, DOMAIN cfg))

\* What a connectivity probe can do:
\*   ok    - the provider answers: is_connected = True, returns True
\*   fail  - the provider answers with a failure (status, empty body, no token)
\*   error - the probe raises inside connect(), which catches it
\*   raise - connect() itself raises (a BaseDataSource subclass may)
ProbeOutcomes == {"ok", "fail", "error", "raise"}

\* adapters whose connect() returns False on a failed answer without
\* touching is_connected (akshare_source.py 26-38, tushare_source.py 28-51)
KeepsFlagOnFail == {"tushare", "akshare"}

\* <adapter>.connect(): the new is_connected, the returned value, and
\* whether an exception leaves connect()
Connect(name, flag, probe) ==
    CASE probe = "ok"    -> [flag |-> TRUE, ret |-> TRUE, raises |-> FALSE]
      [] probe = "fail"  -> [flag |-> IF name \in KeepsFlagOnFail THEN flag ELSE FALSE,
                             ret |-> FALSE, raises |-> FALSE]
      [] probe = "error" -> [flag |-> FALSE, ret |-> FALSE, raises |-> FALSE]
      [] OTHER           -> [flag |-> flag, ret |-> FALSE, raises |-> TRUE]

RECURSIVE ConnectAllUncaught(_, _, _, _)
ConnectAllUncaught(srcs, flags, probes, results) ==
    IF srcs = <<>> THEN [results |-> results, flags |-> flags, raised |-> FALSE]
    ELSE LET n == Head(srcs)
             c == Connect(n, flags[n], probes[n])
         IN  IF c.raises
             THEN [results |-> results, flags |-> flags, raised |-> TRUE]
             ELSE ConnectAllUncaught(Tail(srcs), [flags EXCEPT ![n] = c.flag],
                                     probes, results @@ (n :> c.ret))

\* DataSourceManager.connect_all: results is the returned dict, raised tells
\* whether the call ended with an exception
RECURSIVE ConnectAll(_, _, _, _)
ConnectAll(srcs, flags, probes, results) ==
    IF srcs = <<>> THEN [results |-> results, flags |-> flags, raised |-> FALSE]
    ELSE LET n == Head(srcs)
             c == Connect(n, flags[n], probes[n])
         IN  ConnectAll(Tail(srcs), [flags EXCEPT ![n] = c.flag], probes,
                        results @@ (n :> (IF c.raises THEN FALSE ELSE c.ret)))

\* DataSourceManager.get_available_sources
GetAvailableSources(srcs, flags) == SelectSeq(srcs, LAMBDA n : flags[n])

\* the selection of the primary source at the end of get_data_source_manager
\* (factory.py 183-203); connected is the set of names connect_all reported True
SelectPrimary(srcs, flags, connected, primary) ==
    LET available == GetAvailableSources(srcs, flags)
        hits == {i \in 1..Len(PriorityOrder) : PriorityOrder[i] \in connected}
    IN  IF available # <<>>
        THEN IF hits # {}
             THEN PriorityOrder[CHOOSE i \in hits : \A j \in hits : i <= j]
             ELSE available[1]
        ELSE primary

(***************************************************************************)
(* Operations of the registry                                              *)
(***************************************************************************)
\* The caller is single-threaded: it makes a call, takes what the call
\* returned, and only then makes the next call.
NoCall == [op |-> "none"]

Idle == last.op = "none"

Threads == 1..MaxThreads

\* a thread that is not inside get_data_source_manager
NotCalling == [pc |-> "call", connected |-> {}, ret |-> 0, ret_ready |-> FALSE]

Init ==
    /\ created = FALSE
    /\ config = <<>>
    /\ sources = <<>>
    /\ primary_source = None
    /\ is_connected = <<>>
    /\ instance = 0
    /\ built = 0
    /\ ready = FALSE
    /\ threads = [t \in Threads |-> NotCalling]
    /\ last = NoCall

\* get_data_source_manager(config): builds, probes and selects the primary
\* when no manager exists; returns the existing manager otherwise
NoManagerEver(is_created) == TRUE

\* if _global_manager is None
NoManager(is_created) == ~is_created

GetDataSourceManager ==
    /\ Idle
    /\ \E cfg \in Configs :
        IF NoManager(created)
        THEN \E probes \in [DOMAIN cfg -> ProbeOutcomes] :
                LET mgr == CreateDataSourceManager(cfg)
                    fresh == [n \in Range(mgr.sources) |-> FALSE]
                    c == ConnectAll(mgr.sources, fresh, probes, <<>>)
                    connected == {n \in DOMAIN c.results : c.results[n]}
                IN  /\ created' = TRUE
                    /\ config' = cfg
                    /\ sources' = mgr.sources
                    /\ is_connected' = c.flags
                    /\ primary_source' = IF c.raised THEN mgr.primary_source
                                       ELSE SelectPrimary(mgr.sources, c.flags, connected,
                                                          mgr.primary_source)
                    /\ built < MaxBuilds
                    /\ instance' = built + 1
                    /\ built' = built + 1
                    /\ ready' = TRUE
                    /\ last' = [op |-> "init", probes |-> probes, results |-> c.results,
                                raised |-> c.raised, config_arg |-> cfg, ret |-> built + 1]
        ELSE /\ last' = [op |-> "get", config_arg |-> cfg, ret |-> instance]
             /\ UNCHANGED <<created, config, sources, primary_source, is_connected,
                            instance, built, ready>>
    /\ UNCHANGED threads

\* reset_data_source_manager()
ResetDataSourceManager ==
    /\ Idle
    /\ created
    /\ created' = FALSE
    /\ config' = <<>>
    /\ sources' = <<>>
    /\ primary_source' = None
    /\ is_connected' = <<>>
    /\ instance' = 0
    /\ ready' = FALSE
    /\ last' = [op |-> "reset"]
    /\ UNCHANGED <<built, threads>>

\* manager.connect_all() on the existing manager (test_data_sources.py 42,
\* manage_data_sources.py 57)
ConnectAllSources ==
    /\ Idle
    /\ created
    /\ \E probes \in [Range(sources) -> ProbeOutcomes] :
        LET c == ConnectAll(sources, is_connected, probes, <<>>)
        IN  /\ is_connected' = c.flags
            /\ last' = [op |-> "connect_all", probes |-> probes, results |-> c.results,
                        raised |-> c.raised]
    /\ UNCHANGED <<created, config, sources, primary_source, instance, built, ready, threads>>

SetPrimaryUnchecked(srcs, primary, name) == [primary_source |-> name, raised |-> FALSE]

\* DataSourceManager.set_primary_source: ValueError for an unregistered name
SetPrimary(srcs, primary, name) ==
    IF name \in Range(srcs) THEN [primary_source |-> name, raised |-> FALSE]
    ELSE [primary_source |-> primary, raised |-> TRUE]

\* manager.set_primary_source(name)
SetPrimarySource ==
    /\ Idle
    /\ created
    /\ \E name \in Names :
        LET r == SetPrimary(sources, primary_source, name)
        IN  /\ primary_source' = r.primary_source
            /\ last' = [op |-> "set_primary", name |-> name, raised |-> r.raised]
    /\ UNCHANGED <<created, config, sources, is_connected, instance, built, ready, threads>>

\* What a call on an adapter can yield: a non-empty result, an empty one
\* ({} or an empty DataFrame, which is also what the built-in adapters turn
\* their own exceptions into), or an exception leaving the adapter.
AdapterOutcomes == {"data", "empty", "raise"}

\* adapters that define no get_real_time_price method: the call raises AttributeError
NoQuoteMethod == {"tushare", "akshare"}

\* <adapter>.get_real_time_price: every adapter that has the method catches
\* its own exceptions and returns {} then
QuoteOutcomes(name) == IF name \in NoQuoteMethod THEN {"raise"} ELSE {"data", "empty"}

\* <adapter>.get_stock_list: every adapter catches its own exceptions and
\* returns an empty DataFrame then
ListOutcomes(name) == {"data", "empty"}

\* all ways of giving every name in S an outcome of its quote method
QuoteChoices(S) ==
    {f \in [S -> AdapterOutcomes] : \A n \in S : f[n] \in QuoteOutcomes(n)}

\* all ways of giving every name in S an outcome of its list method
ListChoices(S) ==
    {f \in [S -> AdapterOutcomes] : \A n \in S : f[n] \in ListOutcomes(n)}

FromFirstSource(srcs, primary, outcomes) ==
    IF srcs = <<>>
    THEN [consulted |-> <<>>, result |-> "raise", from |-> None]
    ELSE [consulted |-> <<srcs[1]>>, result |-> outcomes[srcs[1]], from |-> srcs[1]]

\* DataSourceManager.get_real_time_price / get_stock_list: get_source() with
\* no name is the primary source (ValueError when it is not registered), and
\* the call is that source's call, whatever it yields
FromPrimary(srcs, primary, outcomes) ==
    IF primary \notin Range(srcs)
    THEN [consulted |-> <<>>, result |-> "raise", from |-> None]
    ELSE [consulted |-> <<primary>>, result |-> outcomes[primary], from |-> primary]

\* manager.get_real_time_price(symbol)
GetRealTimePrice ==
    /\ Idle
    /\ created
    /\ \E outcomes \in QuoteChoices(Range(sources)) :
        last' = [op |-> "quote", outcomes |-> outcomes,
                 ret |-> FromPrimary(sources, primary_source, outcomes)]
    /\ UNCHANGED <<created, config, sources, primary_source, is_connected, instance, built, ready,
                 threads>>

\* manager.get_stock_list()
GetStockList ==
    /\ Idle
    /\ created
    /\ \E outcomes \in ListChoices(Range(sources)) :
        last' = [op |-> "list", outcomes |-> outcomes,
                 ret |-> FromPrimary(sources, primary_source, outcomes)]
    /\ UNCHANGED <<created, config, sources, primary_source, is_connected, instance, built, ready,
                 threads>>

\* the caller has taken the returned value
Return ==
    /\ ~Idle
    /\ last' = NoCall
    /\ UNCHANGED <<created, config, sources, primary_source, is_connected, instance, built, ready,
                 threads>>

NextRegistry ==
    \/ Return
    \/ GetDataSourceManager
    \/ ResetDataSourceManager
    \/ ConnectAllSources
    \/ SetPrimarySource
    \/ GetRealTimePrice
    \/ GetStockList

SpecRegistry == Init /\ [][NextRegistry]_vars

(***************************************************************************)
(* analysis/engine.py: AnalysisEngine                                      *)
(***************************************************************************)
\* the length in days of the shortened retry window
ShortWindowDays == 30

\* requested windows: the retry window itself and one day more
Days == {ShortWindowDays, ShortWindowDays + 1}

\* numbers of cached rows the persistence layer may return for the window
CacheRows == {0, (ShortWindowDays * 8) \div 10, (ShortWindowDays * 8) \div 10 + 1}

\* not df.empty and len(df) >= days * 0.8
CacheUsable(rows, days) == rows > 0 /\ rows * 10 >= days * 8

\* a price series is modelled by where it came from: a set of
\* <<source, window>> pairs, empty for an empty DataFrame
EmptyFrame == {}

Frame(name, window) == {<<name, window>>}

\* the value df holds after a call: an exception leaves it as it was
FrameAfter(df, call) ==
    CASE call.outcome = "data"  -> Frame(call.name, call.window)
      [] call.outcome = "empty" -> EmptyFrame
      [] OTHER                  -> df

RECURSIVE FetchPassNoBreak(_, _, _, _)
FetchPassNoBreak(avail, outcomes, window, df) ==
    IF avail = <<>> THEN [calls |-> <<>>, df |-> df, raised |-> FALSE]
    ELSE LET call == [name |-> Head(avail), window |-> window,
                      outcome |-> outcomes[Head(avail)]]
             rest == FetchPassNoBreak(Tail(avail), outcomes, window, FrameAfter(df, call))
         IN  [calls |-> <<call>> \o rest.calls, df |-> rest.df, raised |-> FALSE]

RECURSIVE FetchPassUncaught(_, _, _, _)
FetchPassUncaught(avail, outcomes, window, df) ==
    IF avail = <<>> THEN [calls |-> <<>>, df |-> df, raised |-> FALSE]
    ELSE LET call == [name |-> Head(avail), window |-> window,
                      outcome |-> outcomes[Head(avail)]]
             rest == FetchPassUncaught(Tail(avail), outcomes, window, FrameAfter(df, call))
         IN  CASE call.outcome = "data" ->
                    [calls |-> <<call>>, df |-> FrameAfter(df, call), raised |-> FALSE]
               [] call.outcome = "raise" ->
                    [calls |-> <<call>>, df |-> df, raised |-> TRUE]
               [] OTHER ->
                    [calls |-> <<call>> \o rest.calls, df |-> rest.df, raised |-> rest.raised]

\* one loop over available_sources in _get_stock_data: the calls made, the
\* value of df afterwards and whether an exception left the loop
RECURSIVE FetchPass(_, _, _, _)
FetchPass(avail, outcomes, window, df) ==
    IF avail = <<>> THEN [calls |-> <<>>, df |-> df, raised |-> FALSE]
    ELSE LET call == [name |-> Head(avail), window |-> window,
                      outcome |-> outcomes[Head(avail)]]
             rest == FetchPass(Tail(avail), outcomes, window, FrameAfter(df, call))
         IN  IF call.outcome = "data"
             THEN [calls |-> <<call>>, df |-> FrameAfter(df, call), raised |-> FALSE]
             ELSE [calls |-> <<call>> \o rest.calls, df |-> rest.df, raised |-> FALSE]

NeedsShortRetryFromThirtyDays(df, days) == df = EmptyFrame /\ days >= ShortWindowDays

\* if df.empty and days > 30
NeedsShortRetry(df, days) == df = EmptyFrame /\ days > ShortWindowDays

\* the database read at the head of _get_stock_data: skipped under
\* force_update, else a number of cached rows or an exception
CacheReads(force_update) ==
    IF force_update THEN {[kind |-> "skipped", rows |-> 0]}
    ELSE {[kind |-> "rows", rows |-> r] : r \in CacheRows} \cup {[kind |-> "raise", rows |-> 0]}

CacheHit(cache, days) == cache.kind = "rows" /\ CacheUsable(cache.rows, days)

\* AnalysisEngine._get_stock_data: first and second are the adapters'
\* outcomes for the full and for the 30-day window, save is the outcome of
\* db_manager.save_daily_prices
GetStockData(srcs, flags, days, cache, first, second, save) ==
    LET avail == GetAvailableSources(srcs, flags)
        pass1 == FetchPass(avail, first, "full", EmptyFrame)
        retry == ~pass1.raised /\ NeedsShortRetry(pass1.df, days)
        pass2 == IF retry THEN FetchPass(avail, second, "short", pass1.df)
                 ELSE [calls |-> <<>>, df |-> pass1.df, raised |-> FALSE]
        raised == pass1.raised \/ pass2.raised
    IN  CASE cache.kind = "raise" ->
               [raised |-> TRUE, cached |-> FALSE, calls |-> <<>>, retried |-> FALSE,
                df |-> EmptyFrame, saved |-> "none"]
          [] CacheHit(cache, days) ->
               [raised |-> FALSE, cached |-> TRUE, calls |-> <<>>, retried |-> FALSE,
                df |-> Frame("database", "full"), saved |-> "none"]
          [] OTHER ->
               [raised |-> raised, cached |-> FALSE,
                calls |-> pass1.calls \o pass2.calls, retried |-> retry,
                df |-> IF raised THEN EmptyFrame ELSE pass2.df,
                saved |-> IF ~raised /\ pass2.df # EmptyFrame THEN save ELSE "none"]

\* what a collaborator call (a database write, a chart renderer) can do
CollaboratorOutcomes == {"ok", "raise"}

GenerateChartsUncaught(render) ==
    [charts |-> IF render = "ok" THEN "all" ELSE "partial", raises |-> render = "raise"]

\* AnalysisEngine._generate_charts: an exception of the renderer ends the
\* rendering with the charts made so far
GenerateCharts(render) ==
    [charts |-> IF render = "ok" THEN "all" ELSE "partial", raises |-> FALSE]

\* AnalysisEngine._save_analysis_results: a failed write is logged
SaveAnalysisResults(write) == [raises |-> FALSE]

Unset == "unset"

\* the result dict analyze_stock starts from
NewResult ==
    [status |-> "success", message |-> Unset, data |-> Unset, indicators |-> Unset,
     signals |-> Unset, charts |-> Unset, summary |-> Unset]

ErrorResult == [NewResult EXCEPT !.status = "error", !.message = "set"]

AnalyzeWithoutEmptyCheck(hist, render, write) ==
    [raised |-> FALSE,
     result |-> IF hist.raised THEN ErrorResult
                ELSE [NewResult EXCEPT !.data = "set", !.indicators = "set",
                                       !.signals = "set", !.summary = "set",
                                       !.charts = GenerateCharts(render).charts]]

\* AnalysisEngine.analyze_stock after _get_stock_data returned hist (or
\* raised): everything runs inside one try whose handler fills in the error
\* result, so no exception leaves the call
Analyze(hist, render, write) ==
    LET charts == GenerateCharts(render)
        saved == SaveAnalysisResults(write)
    IN  [raised |-> FALSE,
         result |->
            CASE hist.raised -> ErrorResult
              [] hist.df = EmptyFrame -> ErrorResult
              [] charts.raises \/ saved.raises -> ErrorResult
              [] OTHER ->
                   [NewResult EXCEPT !.data = "set", !.indicators = "set",
                                     !.signals = "set", !.summary = "set",
                                     !.charts = charts.charts]]

\* the choices that matter only on some paths are drawn only there
FetchChoices(fetching) ==
    IF fetching
    THEN [Range(GetAvailableSources(sources, is_connected)) -> AdapterOutcomes]
    ELSE {<<>>}

\* engine.analyze_stock(symbol, period, days, force_update), the engine
\* holding the manager get_data_source_manager() returned
AnalyzeStock ==
    /\ Idle
    /\ created
    /\ \E days \in Days, force_update \in BOOLEAN :
       \E cache \in CacheReads(force_update) :
       \E first \in FetchChoices(cache.kind # "raise" /\ ~CacheHit(cache, days)) :
       \E second \in FetchChoices(/\ cache.kind # "raise" /\ ~CacheHit(cache, days)
                                  /\ days > ShortWindowDays
                                  /\ \A n \in DOMAIN first : first[n] # "data") :
       \E save \in CollaboratorOutcomes :
        LET hist == GetStockData(sources, is_connected, days, cache, first,
                                 IF second = <<>> THEN first ELSE second, save)
        IN  \E render \in (IF hist.df = EmptyFrame THEN {"ok"} ELSE CollaboratorOutcomes),
               write \in (IF hist.df = EmptyFrame THEN {"ok"} ELSE CollaboratorOutcomes) :
                last' = [op |-> "analyze", days |-> days, hist |-> hist,
                         cache |-> IF cache.kind # "rows" THEN cache.kind
                                   ELSE IF CacheHit(cache, days) THEN "hit" ELSE "miss",
                         render |-> IF hist.df = EmptyFrame THEN "none" ELSE render,
                         write |-> IF hist.df = EmptyFrame THEN "none" ELSE write,
                         ret |-> Analyze(hist, render, write)]
    /\ UNCHANGED <<created, config, sources, primary_source, is_connected, instance, built, ready,
                 threads>>

NextEngine ==
    \/ Return
    \/ GetDataSourceManager
    \/ ConnectAllSources
    \/ AnalyzeStock

SpecEngine == Init /\ [][NextEngine]_vars

(***************************************************************************)
(* strategy/retail_strategy.py and the turtle recommendation it consumes.  *)
(* Scores and confidences are counted in thousandths, prices and ATR in    *)
(* cents, position sizes in basis points of the capital.                   *)
(***************************************************************************)
Abs(x) == IF x < 0 THEN -x ELSE x

\* an optional number: <<>> is None
NoValue == <<>>

Some(x) == <<x>>

NeverTruthy(opt) == FALSE

\* Python truthiness of an optional number: None and 0 are false
Truthy(opt) == opt # NoValue /\ opt[1] # 0

\* RetailStrategy.params
TurtleWeight == 600
StopLossRatio == 80
TakeProfitRatio == 150
DefaultPositionSize == 1000

\* TurtleTradingStrategy.params
PositionRiskBp == 200
UnitLimitSingle == 500
StopLossAtrMultiple == 2

\* the latest indicator row as _analyze_traditional_signals reads it:
\* none stored, or ma5 > ma20, the rsi zone and macd > macd_signal
TechRows ==
    {[empty |-> TRUE, ma_up |-> FALSE, rsi |-> "mid", macd_up |-> FALSE]} \cup
    [empty : {FALSE}, ma_up : BOOLEAN, rsi : {"low", "mid", "high"}, macd_up : BOOLEAN]

\* the latest bar's volume against twice the 20-bar mean: no spike, a
\* spike on a rising close, a spike on a close that did not rise
VolumeSpikes == {"none", "up", "down"}

\* RetailStrategy._analyze_traditional_signals
AnalyzeTraditionalSignals(tech, spike) ==
    IF tech.empty THEN [trend |-> 0, technical |-> 0, volume |-> 0]
    ELSE [trend |-> IF tech.ma_up THEN 300 ELSE -300,
          technical |-> (CASE tech.rsi = "low" -> 400
                           [] tech.rsi = "high" -> -400
                           [] OTHER -> 0)
                        + (IF tech.macd_up THEN 200 ELSE -200),
          volume |-> CASE spike = "up" -> 200
                       [] spike = "down" -> -100
                       [] OTHER -> 0]

CalculatePositionSizeUncapped(price, atr) ==
    IF atr <= 0 \/ price <= 0 THEN UnitLimitSingle
    ELSE (PositionRiskBp * 100) \div atr

\* TurtleTradingStrategy._calculate_position_size
CalculatePositionSize(price, atr) ==
    IF atr <= 0 \/ price <= 0 THEN UnitLimitSingle
    ELSE Min((PositionRiskBp * 100) \div atr, UnitLimitSingle)

\* TurtleTradingStrategy._calculate_stop_loss
CalculateStopLoss(price, atr, signal) ==
    CASE signal = "BUY"  -> Some(price - atr * StopLossAtrMultiple)
      [] signal = "SELL" -> Some(price + atr * StopLossAtrMultiple)
      [] OTHER           -> NoValue

\* TurtleTradingStrategy.get_turtle_recommendation for a combined signal
\* (NO_ACTION when the analysis reported an error), the confidence of the
\* system that entered, the latest close and the latest ATR
GetTurtleRecommendation(signal, entry_confidence, price, atr) ==
    IF signal = "NO_ACTION"
    THEN [recommendation |-> "NO_ACTION", confidence |-> 0, stop_loss |-> NoValue,
          position_size |-> DefaultPositionSize, atr_pct |-> 0]
    ELSE [recommendation |-> signal,
          confidence |-> CASE signal \in {"BUY", "SELL"} -> entry_confidence
                           [] signal = "EXIT" -> 800
                           [] OTHER -> 300,
          stop_loss |-> CalculateStopLoss(price, atr, signal),
          position_size |-> IF signal \in {"BUY", "SELL"}
                            THEN CalculatePositionSize(price, atr) ELSE 0,
          atr_pct |-> IF price > 0 THEN (atr * 10000) \div price ELSE 0]

ScoreActionAtThreshold(total) ==
    IF total >= 300000 THEN "BUY"
    ELSE IF total <= -300000 THEN "SELL" ELSE "HOLD"

\* the decision thresholds of _make_combined_decision on total_score in
\* millionths: above 0.3 BUY, below -0.3 SELL
ScoreAction(total) ==
    IF total > 300000 THEN "BUY"
    ELSE IF total < -300000 THEN "SELL" ELSE "HOLD"

\* RetailStrategy._make_combined_decision; total_score is kept in millionths
\* (thousandths times thousandths)
MakeCombinedDecision(traditional, turtle) ==
    LET traditional_score == traditional.trend + traditional.technical + traditional.volume
        turtle_score == CASE turtle.recommendation = "BUY"  -> turtle.confidence
                          [] turtle.recommendation = "SELL" -> -turtle.confidence
                          [] turtle.recommendation = "EXIT" -> -800
                          [] OTHER -> 0
        total == traditional_score * (1000 - TurtleWeight) + turtle_score * TurtleWeight
        reasons ==
            (IF traditional.trend > 0 THEN <<"ma_up">>
             ELSE IF traditional.trend < 0 THEN <<"ma_down">> ELSE <<>>)
            \o (IF traditional.technical > 200 THEN <<"technical_up">>
                ELSE IF traditional.technical < -200 THEN <<"technical_down">> ELSE <<>>)
            \o (IF traditional.volume > 0 THEN <<"volume_up">>
                ELSE IF traditional.volume < 0 THEN <<"volume_down">> ELSE <<>>)
            \o (IF turtle.recommendation \in {"BUY", "SELL", "EXIT"}
                THEN <<"turtle">> ELSE <<>>)
        action == ScoreAction(total)
    IN  [action |-> action,
         confidence |-> IF action = "HOLD" THEN 500
                        ELSE Min(900, 500 + Abs(total) \div 1000),
         reasons |-> IF action = "HOLD" /\ reasons = <<>> THEN <<"unclear">> ELSE reasons,
         total_score |-> total]

\* the volatility tier of the closes: pct_change().std() above 0.05,
\* above 0.03, or lower
Volatilities == {"high", "medium", "low"}

\* RetailStrategy._calculate_enhanced_risk_management
CalculateEnhancedRiskManagement(price, volatility, action, turtle) ==
    LET base == [entry_price |-> Some(price), stop_loss |-> NoValue,
                 take_profit |-> NoValue, position_size |-> DefaultPositionSize]
    IN  IF action \notin {"BUY", "SELL"} THEN base
        ELSE IF Truthy(turtle.stop_loss)
        THEN [base EXCEPT
                !.stop_loss = turtle.stop_loss,
                !.position_size = turtle.position_size,
                !.take_profit =
                    IF turtle.atr_pct = 0 THEN NoValue
                    ELSE IF action = "BUY"
                         THEN Some(price + (price * turtle.atr_pct * 2) \div 10000)
                         ELSE Some(price - (price * turtle.atr_pct * 2) \div 10000)]
        ELSE [base EXCEPT
                !.stop_loss = IF action = "BUY"
                              THEN Some((price * (1000 - StopLossRatio)) \div 1000)
                              ELSE Some((price * (1000 + StopLossRatio)) \div 1000),
                !.take_profit = IF action = "BUY"
                                THEN Some((price * (1000 + TakeProfitRatio)) \div 1000)
                                ELSE Some((price * (1000 - TakeProfitRatio)) \div 1000),
                !.position_size = CASE volatility = "high" -> 500
                                    [] volatility = "medium" -> 1000
                                    [] OTHER -> 1500]

\* the result dict generate_trading_signals starts from
NewSignal ==
    [action |-> "HOLD", confidence |-> 500, reasons |-> <<>>, entry_price |-> NoValue,
     stop_loss |-> NoValue, take_profit |-> NoValue, position_size |-> DefaultPositionSize]

\* the except branch of generate_trading_signals: the reason is appended to
\* the result as it stands
WithError(result) == [result EXCEPT !.reasons = Append(@, "error")]

\* result.update(d): the keys of d that the result dict reports
Update(result, d) ==
    [k \in DOMAIN result |-> IF k \in DOMAIN d THEN d[k] ELSE result[k]]

\* the stages of generate_trading_signals at which an exception can occur
Stages == {"data", "traditional", "turtle", "decision", "risk"}

\* RetailStrategy.generate_trading_signals. fail names the stage that
\* raises ("none": no stage does), rows tells whether price rows were read;
\* failed is the stage that did raise
GenerateSignals(fail, rows, tech, spike, turtle, price, volatility) ==
    LET decision == MakeCombinedDecision(AnalyzeTraditionalSignals(tech, spike), turtle)
        decided == Update(NewSignal, decision)
        risk == CalculateEnhancedRiskManagement(price, volatility, decided.action, turtle)
    IN  CASE fail = "data" ->
               [raised |-> FALSE, failed |-> fail, result |-> WithError(NewSignal)]
          [] ~rows ->
               [raised |-> FALSE, failed |-> "none",
                result |-> [NewSignal EXCEPT !.reasons = <<"no_data">>]]
          [] fail \in {"traditional", "turtle", "decision"} ->
               [raised |-> FALSE, failed |-> fail, result |-> WithError(NewSignal)]
          [] fail = "risk" ->
               [raised |-> FALSE, failed |-> fail, result |-> WithError(decided)]
          [] OTHER ->
               [raised |-> FALSE, failed |-> "none", result |-> Update(decided, risk)]

\* latest closes and ATR values, in cents
Prices == {1000, 10000}

AtrValues == {25, 100, 400}

\* confidences of a breakout system, within the clamp [0.1, 0.9]
EntryConfidences == {100, 500, 600, 900}

TurtleSignals == {"NO_ACTION", "BUY", "SELL", "EXIT", "HOLD"}

\* retail_strategy.generate_trading_signals(symbol)
GenerateTradingSignals ==
    /\ Idle
    /\ \E fail \in Stages \cup {"none"}, rows \in BOOLEAN, tech \in TechRows,
          spike \in VolumeSpikes, signal \in TurtleSignals, price \in Prices,
          volatility \in Volatilities :
       \E confidence \in (IF signal \in {"BUY", "SELL"} THEN EntryConfidences ELSE {0}),
          atr \in (IF signal = "NO_ACTION" THEN {0} ELSE AtrValues) :
        LET ret == GenerateSignals(fail, rows, tech, spike,
                                   GetTurtleRecommendation(signal, confidence, price, atr),
                                   price, volatility)
        IN  last' = [op |-> "signals", ret |-> ret]
    /\ UNCHANGED <<created, config, sources, primary_source, is_connected, instance, built, ready,
                 threads>>

\* turtle_signals = None: no turtle result
NoTurtle ==
    [recommendation |-> None, confidence |-> 0, stop_loss |-> NoValue,
     position_size |-> DefaultPositionSize, atr_pct |-> 0]

\* the turtle results the combiner can be handed
TurtleResults ==
    {NoTurtle} \cup
    {GetTurtleRecommendation(signal, confidence, price, atr) :
        signal \in TurtleSignals, confidence \in EntryConfidences,
        price \in Prices, atr \in AtrValues}

\* retail_strategy._make_combined_decision(traditional_signals, turtle_signals)
MakeDecision ==
    /\ Idle
    /\ \E tech \in TechRows, spike \in VolumeSpikes, turtle \in TurtleResults :
        LET traditional == AnalyzeTraditionalSignals(tech, spike)
        IN  last' = [op |-> "decision", traditional |-> traditional, turtle |-> turtle,
                     ret |-> MakeCombinedDecision(traditional, turtle)]
    /\ UNCHANGED <<created, config, sources, primary_source, is_connected, instance, built, ready,
                 threads>>

\* retail_strategy._calculate_enhanced_risk_management(price_data, action,
\* turtle_signals)
CalculateRisk ==
    /\ Idle
    /\ \E price \in Prices, volatility \in Volatilities,
          action \in {"BUY", "SELL", "HOLD"}, turtle \in TurtleResults :
        last' = [op |-> "risk", price |-> price, volatility |-> volatility,
                 action |-> action, turtle |-> turtle,
                 ret |-> CalculateEnhancedRiskManagement(price, volatility, action, turtle)]
    /\ UNCHANGED <<created, config, sources, primary_source, is_connected, instance, built, ready,
                 threads>>

NextStrategy ==
    \/ Return
    \/ GenerateTradingSignals
    \/ MakeDecision
    \/ CalculateRisk

SpecStrategy == Init /\ [][NextStrategy]_vars

(***************************************************************************)
(* strategy/turtle_strategy.py: the two breakout systems over a series of  *)
(* daily bars.  Prices are in cents; a confidence is the exact fraction    *)
(* num/den of thousandths.                                                 *)
(***************************************************************************)
\* TurtleTradingStrategy.params
System1EntryPeriod == 20
System1ExitPeriod == 10
System2EntryPeriod == 55
System2ExitPeriod == 20
AtrPeriod == 20

EntryPeriod(system_num) ==
    IF system_num = 1 THEN System1EntryPeriod ELSE System2EntryPeriod

ExitPeriodBeyondEntry(system_num) == EntryPeriod(system_num) + 1

ExitPeriod(system_num) ==
    IF system_num = 1 THEN System1ExitPeriod ELSE System2ExitPeriod

Max(a, b) == IF a > b THEN a ELSE b

PrecedingWithLatest(series, period) ==
    {series[i] : i \in Max(1, Len(series) - period + 1)..Len(series)}

\* price_data[column].iloc[-(period+1):-1]: the period bars before the latest
Preceding(series, period) ==
    {series[i] : i \in Max(1, Len(series) - period)..(Len(series) - 1)}

MaxHigh(bars) == CHOOSE h \in {b.high : b \in bars} : \A b \in bars : b.high <= h

MinLow(bars) == CHOOSE l \in {b.low : b \in bars} : \A b \in bars : l <= b.low

\* price_data['volume'].tail(20).sum()
RECURSIVE TailVolume(_, _)
TailVolume(series, k) ==
    IF k = 0 \/ series = <<>> THEN 0
    ELSE series[Len(series)].volume
         + TailVolume(SubSeq(series, 1, Len(series) - 1), k - 1)

NoConfidence == [num |-> 0, den |-> 1]

\* TurtleTradingStrategy._calculate_breakout_strength, in thousandths with
\* the common denominator breakout_level * (volume of the last 20 bars)
CalculateBreakoutStrength(series, breakout_level, is_upward) ==
    LET current == series[Len(series)]
        volumes == TailVolume(series, 20)
        rows == Min(Len(series), 20)
        vden == IF volumes > 0 THEN volumes ELSE 1
        den == breakout_level * vden
        move == IF is_upward THEN current.close - breakout_level
                ELSE breakout_level - current.close
        \* min(breakout_pct * 10, 0.5)
        base_confidence == Min(10000 * move * vden, 500 * den)
        \* (volume_ratio - 1) * avg_volume * rows, with
        \* volume_ratio = current_volume / avg_volume if avg_volume > 0 else 1
        excess == IF volumes > 0 THEN current.volume * rows - volumes ELSE 0
        \* min((volume_ratio - 1) * 0.1, 0.3)
        volume_boost == Min(100 * excess * breakout_level, 300 * den)
    IN  [num |-> Max(Min(base_confidence + volume_boost + 300 * den, 900 * den), 100 * den),
         den |-> den]

\* TurtleTradingStrategy._analyze_system
AnalyzeSystem(system_num, series) ==
    LET entry_period == EntryPeriod(system_num)
        exit_period == ExitPeriod(system_num)
        none == [entry_signal |-> "NONE", exit_signal |-> "NONE",
                 entry_price |-> NoValue, exit_price |-> NoValue,
                 breakout_high |-> NoValue, breakout_low |-> NoValue,
                 confidence |-> NoConfidence]
    IN  IF Len(series) < entry_period + 1 THEN none
        ELSE
        LET current == series[Len(series)]
            entry_high == MaxHigh(Preceding(series, entry_period))
            entry_low == MinLow(Preceding(series, entry_period))
            exit_high == IF Len(series) >= exit_period + 1
                         THEN MaxHigh(Preceding(series, exit_period)) ELSE entry_high
            exit_low == IF Len(series) >= exit_period + 1
                        THEN MinLow(Preceding(series, exit_period)) ELSE entry_low
            entry_signal == IF current.high > entry_high THEN "BUY"
                            ELSE IF current.low < entry_low THEN "SELL" ELSE "NONE"
            exit_signal == IF current.low < exit_low THEN "EXIT_LONG"
                           ELSE IF current.high > exit_high THEN "EXIT_SHORT" ELSE "NONE"
        IN  [entry_signal |-> entry_signal,
             exit_signal |-> exit_signal,
             entry_price |-> CASE entry_signal = "BUY" -> Some(entry_high)
                               [] entry_signal = "SELL" -> Some(entry_low)
                               [] OTHER -> NoValue,
             exit_price |-> CASE exit_signal = "EXIT_LONG" -> Some(exit_low)
                              [] exit_signal = "EXIT_SHORT" -> Some(exit_high)
                              [] OTHER -> NoValue,
             breakout_high |-> Some(entry_high),
             breakout_low |-> Some(entry_low),
             confidence |-> CASE entry_signal = "BUY" ->
                                   CalculateBreakoutStrength(series, entry_high, TRUE)
                              [] entry_signal = "SELL" ->
                                   CalculateBreakoutStrength(series, entry_low, FALSE)
                              [] OTHER -> NoConfidence]

\* TurtleTradingStrategy._combine_signals
CombineSignalsEntryAtSixTenths(system1, system2) ==
    IF system2.entry_signal # "NONE" THEN system2.entry_signal
    ELSE IF system1.entry_signal # "NONE"
            /\ system1.confidence.num >= 600 * system1.confidence.den
    THEN system1.entry_signal
    ELSE IF system2.exit_signal # "NONE" \/ system1.exit_signal # "NONE" THEN "EXIT"
    ELSE "HOLD"

CombineSignals(system1, system2) ==
    IF system2.entry_signal # "NONE" THEN system2.entry_signal
    ELSE IF system1.entry_signal # "NONE"
            /\ system1.confidence.num > 600 * system1.confidence.den
    THEN system1.entry_signal
    ELSE IF system2.exit_signal # "NONE" THEN "EXIT"
    ELSE IF system1.exit_signal # "NONE" THEN "EXIT"
    ELSE "HOLD"

\* the rows analyze_turtle_signals needs before it analyses
MinTurtleRows == Max(System2EntryPeriod, AtrPeriod) + 5

\* TurtleTradingStrategy.analyze_turtle_signals: read tells whether the
\* price read succeeded, atr is the latest value of _calculate_atr
AnalyzeTurtleSignals(read, series, atr) ==
    LET empty == [error |-> TRUE, system1 |-> <<>>, system2 |-> <<>>,
                  combined_signal |-> "HOLD", position_size |-> 0,
                  stop_loss |-> NoValue, atr_pct |-> 0]
    IN  IF read = "raise" \/ Len(series) < MinTurtleRows THEN empty
        ELSE
        LET system1 == AnalyzeSystem(1, series)
            system2 == AnalyzeSystem(2, series)
            combined == CombineSignals(system1, system2)
            price == series[Len(series)].close
            entered == combined \in {"BUY", "SELL"}
        IN  [error |-> FALSE, system1 |-> system1, system2 |-> system2,
             combined_signal |-> combined,
             position_size |-> IF entered THEN CalculatePositionSize(price, atr) ELSE 0,
             stop_loss |-> IF entered THEN CalculateStopLoss(price, atr, combined)
                           ELSE NoValue,
             atr_pct |-> IF price > 0 THEN (atr * 10000) \div price ELSE 0]

\* the confidence get_turtle_recommendation reports for an entry: that of
\* system 2 when it gave the combined signal, else that of system 1
ActiveConfidence(analysis) ==
    LET active == IF analysis.system2.entry_signal = analysis.combined_signal
                  THEN analysis.system2 ELSE analysis.system1
    IN  active.confidence.num \div active.confidence.den

\* daily bars: a flat series with one marked bar and the latest bar
BaseBar == [high |-> 1000, low |-> 900, close |-> 950, volume |-> 1]

MarkedBars ==
    {BaseBar, [BaseBar EXCEPT !.high = 1100], [BaseBar EXCEPT !.low = 800]}

LatestBars ==
    {b \in [high : {1000, 1050, 1200}, low : {900, 850, 700},
            close : {700, 900, 1000, 1030, 1200}, volume : {0, 1, 21}] :
        b.low <= b.close /\ b.close <= b.high}

\* how many bars before the latest one the marked bar lies
Offsets == {1, System1ExitPeriod, System1ExitPeriod + 1,
            System1EntryPeriod, System1EntryPeriod + 1,
            System2EntryPeriod, System2EntryPeriod + 1}

Lengths == {System1EntryPeriod, System1EntryPeriod + 1, System1EntryPeriod + 5,
            System2EntryPeriod, System2EntryPeriod + 1, MinTurtleRows - 1,
            MinTurtleRows, MinTurtleRows + 1}

BarSeries(n, offset, marked, latest) ==
    [i \in 1..n |-> IF i = n THEN latest
                    ELSE IF i = n - offset THEN marked ELSE BaseBar]

\* turtle_strategy._analyze_system(symbol, system_num, price_data, atr_data)
AnalyzeOneSystem ==
    /\ Idle
    /\ \E system_num \in {1, 2}, n \in Lengths, offset \in Offsets,
          marked \in MarkedBars, latest \in LatestBars :
        LET series == BarSeries(n, offset, marked, latest)
        IN  last' = [op |-> "system", system_num |-> system_num, series |-> series,
                     ret |-> AnalyzeSystem(system_num, series)]
    /\ UNCHANGED <<created, config, sources, primary_source, is_connected, instance, built, ready,
                 threads>>

\* turtle_strategy.analyze_turtle_signals(symbol)
AnalyzeTurtle ==
    /\ Idle
    /\ \E read \in {"rows", "raise"}, n \in Lengths, offset \in Offsets,
          marked \in MarkedBars, latest \in LatestBars, atr \in AtrValues \cup {0} :
        LET series == BarSeries(n, offset, marked, latest)
        IN  last' = [op |-> "turtle", read |-> read, series |-> series, atr |-> atr,
                     ret |-> AnalyzeTurtleSignals(read, series, atr)]
    /\ UNCHANGED <<created, config, sources, primary_source, is_connected, instance, built, ready,
                 threads>>

NextTurtle ==
    \/ Return
    \/ AnalyzeOneSystem
    \/ AnalyzeTurtle

SpecTurtle == Init /\ [][NextTurtle]_vars

(***************************************************************************)
(* risk/assessment.py.  Factor scores are whole points; the overall risk   *)
(* score is counted in tenths of a point.  The level names stand for the   *)
(* three level strings of _determine_risk_level.                           *)
(***************************************************************************)
MinRiskRows == 10

DataInsufficientAtTen(rows) == rows <= MinRiskRows

\* df.empty or len(df) < 10
DataInsufficient(rows) == rows = 0 \/ rows < MinRiskRows

DetermineRiskLevelInclusive(score) ==
    IF score <= 300 THEN "LOW"
    ELSE IF score <= 600 THEN "MEDIUM" ELSE "HIGH"

\* RiskAssessment._determine_risk_level on a score in tenths
DetermineRiskLevel(score) ==
    IF score < 300 THEN "LOW"
    ELSE IF score < 600 THEN "MEDIUM" ELSE "HIGH"

\* what _assess_volatility_risk compares: the volatility against 2% and
\* 5%, the largest drawdown against 10% and 20%
VolatilityInputs ==
    [fail : BOOLEAN, volatility : {"low", "medium", "high"},
     drawdown : {"small", "over10", "over20"}]

\* RiskAssessment._assess_volatility_risk
AssessVolatilityRisk(v) ==
    IF v.fail THEN 50
    ELSE Min((CASE v.volatility = "low" -> 20
                [] v.volatility = "medium" -> 50
                [] OTHER -> 80)
             + (CASE v.drawdown = "over20" -> 15
                  [] v.drawdown = "over10" -> 10
                  [] OTHER -> 0), 100)

\* what _assess_volume_risk compares: the share of spike days against 5%
\* and 10%, the coefficient of variation against 1.0 and 1.5
VolumeInputs ==
    [fail : BOOLEAN, data : BOOLEAN, spikes : {"few", "over5", "over10"},
     cv : {"low", "over1", "over15"}]

\* RiskAssessment._assess_volume_risk
AssessVolumeRisk(v) ==
    IF v.fail THEN 50
    ELSE IF ~v.data THEN 30
    ELSE Min(20 + (CASE v.spikes = "over10" -> 30
                     [] v.spikes = "over5" -> 20
                     [] OTHER -> 0)
                + (CASE v.cv = "over15" -> 20
                     [] v.cv = "over1" -> 10
                     [] OTHER -> 0), 100)

\* what _assess_technical_risk compares on the latest indicator row
TechnicalInputs ==
    [fail : BOOLEAN, data : BOOLEAN,
     rsi : {"none", "over80", "over70", "under20", "under30", "mid"},
     macd_wide : BOOLEAN, ma_deviation : {"small", "over5", "over10"}]

\* RiskAssessment._assess_technical_risk
AssessTechnicalRisk(v) ==
    IF v.fail THEN 50
    ELSE IF ~v.data THEN 40
    ELSE Min(20 + (CASE v.rsi = "over80" -> 25
                     [] v.rsi = "over70" -> 15
                     [] v.rsi = "under20" -> 20
                     [] v.rsi = "under30" -> 10
                     [] OTHER -> 0)
                + (IF v.macd_wide THEN 15 ELSE 0)
                + (CASE v.ma_deviation = "over10" -> 20
                     [] v.ma_deviation = "over5" -> 10
                     [] OTHER -> 0), 100)

\* what _assess_trend_risk compares: the longest run of declines against 3
\* and 5 days, the slope against 0 and -0.1, the price position against
\* 0.2 and 0.8
TrendInputs ==
    [fail : BOOLEAN, decline : {"short", "three", "five"},
     slope : {"up", "down", "steep"}, position : {"low", "mid", "high"}]

\* RiskAssessment._assess_trend_risk
AssessTrendRisk(v) ==
    IF v.fail THEN 50
    ELSE Min(20 + (CASE v.decline = "five" -> 30
                     [] v.decline = "three" -> 15
                     [] OTHER -> 0)
                + (CASE v.slope = "steep" -> 25
                     [] v.slope = "down" -> 10
                     [] OTHER -> 0)
                + (CASE v.position = "low" -> 20
                     [] v.position = "high" -> 15
                     [] OTHER -> 0), 100)

\* what _assess_liquidity_risk compares: days without volume, the share of
\* low-volume days against 10%, 20% and 30%
LiquidityInputs ==
    [fail : BOOLEAN, data : BOOLEAN, zero_days : BOOLEAN,
     low_ratio : {"low", "over10", "over20", "over30"}]

\* RiskAssessment._assess_liquidity_risk
AssessLiquidityRisk(v) ==
    IF v.fail THEN 30
    ELSE IF ~v.data THEN 50
    ELSE Min(10 + (IF v.zero_days THEN 40 ELSE 0)
                + (CASE v.low_ratio = "over30" -> 30
                     [] v.low_ratio = "over20" -> 20
                     [] v.low_ratio = "over10" -> 10
                     [] OTHER -> 0), 100)

RECURSIVE Sum(_)
Sum(scores) == IF scores = <<>> THEN 0 ELSE Head(scores) + Sum(Tail(scores))

\* np.mean(risk_scores), in tenths
MeanTenths(scores) == (Sum(scores) * 10) \div Len(scores)

\* RiskAssessment.assess_stock_risk: read tells whether the price read
\* succeeded, rows is len(df), factors are the five factor scores in the
\* order they are appended
AssessRisk(read, rows, factors) ==
    LET unscored == [risk_level |-> "unknown", risk_score |-> 0, risk_factors |-> <<>>]
    IN  IF read = "raise" THEN [unscored EXCEPT !.risk_level = "error"]
        ELSE IF DataInsufficient(rows)
        THEN [unscored EXCEPT !.risk_level = "data_insufficient"]
        ELSE [risk_level |-> DetermineRiskLevel(MeanTenths(factors)),
              risk_score |-> MeanTenths(factors),
              risk_factors |-> factors]

RiskRows == {0, MinRiskRows - 1, MinRiskRows, MinRiskRows + 1}

\* risk_assessment.assess_stock_risk(symbol)
AssessStockRisk ==
    /\ Idle
    /\ \E read \in {"rows", "raise"}, rows \in RiskRows,
          volatility \in {AssessVolatilityRisk(v) : v \in VolatilityInputs},
          volume \in {AssessVolumeRisk(v) : v \in VolumeInputs},
          technical \in {AssessTechnicalRisk(v) : v \in TechnicalInputs},
          trend \in {AssessTrendRisk(v) : v \in TrendInputs},
          liquidity \in {AssessLiquidityRisk(v) : v \in LiquidityInputs} :
        last' = [op |-> "assess", read |-> read, rows |-> rows,
                 ret |-> AssessRisk(read, rows,
                                    <<volatility, volume, technical, trend, liquidity>>)]
    /\ UNCHANGED <<created, config, sources, primary_source, is_connected, instance, built, ready,
                 threads>>

\* overall risk scores in tenths, 0.0 to 100.0
RiskScores == 0..1000

\* risk_assessment._determine_risk_level(risk_score)
DetermineLevel ==
    /\ Idle
    /\ \E score \in RiskScores :
        last' = [op |-> "level", score |-> score, ret |-> DetermineRiskLevel(score)]
    /\ UNCHANGED <<created, config, sources, primary_source, is_connected, instance, built, ready,
                 threads>>

NextRisk ==
    \/ Return
    \/ AssessStockRisk
    \/ DetermineLevel

SpecRisk == Init /\ [][NextRisk]_vars

(***************************************************************************)
(* analysis/technical_indicators.py.  A cell of an indicator row is NaN or *)
(* a number: NaN is <<>>, the number x is <<x>>.                           *)
(***************************************************************************)
NaN == <<>>

\* pd.isna(x)
IsNa(x) == x = NaN

\* Python float comparisons: any comparison with NaN is false
Gt(a, b) == ~IsNa(a) /\ ~IsNa(b) /\ a[1] > b[1]

Lt(a, b) == ~IsNa(a) /\ ~IsNa(b) /\ a[1] < b[1]

Ge(a, b) == ~IsNa(a) /\ ~IsNa(b) /\ a[1] >= b[1]

LeOrNaN(a, b) == IsNa(a) \/ IsNa(b) \/ a[1] <= b[1]

Le(a, b) == ~IsNa(a) /\ ~IsNa(b) /\ a[1] <= b[1]

CrossSignalsStrictFlip(name, prev, latest, fast, slow) ==
    IF ~IsNa(latest[fast]) /\ ~IsNa(latest[slow])
    THEN IF Gt(latest[fast], latest[slow]) /\ Lt(prev[fast], prev[slow])
         THEN {name \o "_golden_cross"}
         ELSE IF Lt(latest[fast], latest[slow]) /\ Gt(prev[fast], prev[slow])
         THEN {name \o "_death_cross"}
         ELSE {}
    ELSE {}

\* one crossover block of get_latest_signals: the signals it sets for the
\* fast and the slow column
CrossSignals(name, prev, latest, fast, slow) ==
    IF ~IsNa(latest[fast]) /\ ~IsNa(latest[slow])
    THEN IF Gt(latest[fast], latest[slow]) /\ Le(prev[fast], prev[slow])
         THEN {name \o "_golden_cross"}
         ELSE IF Lt(latest[fast], latest[slow]) /\ Ge(prev[fast], prev[slow])
         THEN {name \o "_death_cross"}
         ELSE {}
    ELSE {}

\* TechnicalIndicators.get_latest_signals on a frame of rows (a sequence of
\* indicator rows): the keys of the returned dict
LatestSignals(frame) ==
    IF Len(frame) < 2 THEN {}
    ELSE
    LET latest == frame[Len(frame)]
        prev == frame[Len(frame) - 1]
    IN  CrossSignals("ma", prev, latest, "ma5", "ma20")
        \cup CrossSignals("macd", prev, latest, "macd", "macd_signal")
        \cup (IF ~IsNa(latest.rsi)
              THEN IF Gt(latest.rsi, Some(70)) THEN {"rsi_overbought"}
                   ELSE IF Lt(latest.rsi, Some(30)) THEN {"rsi_oversold"} ELSE {}
              ELSE {})
        \cup CrossSignals("kdj", prev, latest, "kdj_k", "kdj_d")
        \cup (IF ~IsNa(latest.close) /\ ~IsNa(latest.boll_upper)
                 /\ ~IsNa(latest.boll_lower)
              THEN IF Gt(latest.close, latest.boll_upper)
                   THEN {"boll_breakthrough_upper"}
                   ELSE IF Lt(latest.close, latest.boll_lower)
                   THEN {"boll_breakthrough_lower"} ELSE {}
              ELSE {})

\* the values of a fast and a slow line on two rows
Cells == {NaN, Some(1), Some(2)}

LinePairs == [prev_fast : Cells, prev_slow : Cells, fast : Cells, slow : Cells]

\* pairs given to the lines that are not being varied
QuietPairs ==
    {[prev_fast |-> NaN, prev_slow |-> NaN, fast |-> NaN, slow |-> NaN],
     [prev_fast |-> Some(1), prev_slow |-> Some(2), fast |-> Some(2), slow |-> Some(1)],
     [prev_fast |-> Some(2), prev_slow |-> Some(2), fast |-> Some(2), slow |-> Some(2)]}

\* rsi, and close with the two bands
Levels ==
    {[rsi |-> NaN, close |-> NaN, boll_upper |-> NaN, boll_lower |-> NaN],
     [rsi |-> Some(80), close |-> Some(12), boll_upper |-> Some(11), boll_lower |-> Some(9)],
     [rsi |-> Some(20), close |-> Some(8), boll_upper |-> Some(11), boll_lower |-> Some(9)],
     [rsi |-> Some(50), close |-> Some(10), boll_upper |-> NaN, boll_lower |-> Some(9)]}

\* the NaN cells of a row on which rsi and the bands are not yet defined
NoLevels == [rsi |-> NaN, close |-> NaN, boll_upper |-> NaN, boll_lower |-> NaN]

IndicatorRow(ma, macd, kdj, levels, is_latest) ==
    [ma5 |-> IF is_latest THEN ma.fast ELSE ma.prev_fast,
     ma20 |-> IF is_latest THEN ma.slow ELSE ma.prev_slow,
     macd |-> IF is_latest THEN macd.fast ELSE macd.prev_fast,
     macd_signal |-> IF is_latest THEN macd.slow ELSE macd.prev_slow,
     kdj_k |-> IF is_latest THEN kdj.fast ELSE kdj.prev_fast,
     kdj_d |-> IF is_latest THEN kdj.slow ELSE kdj.prev_slow,
     rsi |-> levels.rsi, close |-> levels.close,
     boll_upper |-> levels.boll_upper, boll_lower |-> levels.boll_lower]

\* a frame of 0 to 3 rows: the rows before the last two are all NaN
SignalFrame(rows, ma, macd, kdj, prev_levels, levels) ==
    LET quiet == [prev_fast |-> NaN, prev_slow |-> NaN, fast |-> NaN, slow |-> NaN]
        blank == IndicatorRow(quiet, quiet, quiet, NoLevels, TRUE)
        prev == IndicatorRow(ma, macd, kdj, prev_levels, FALSE)
        latest == IndicatorRow(ma, macd, kdj, levels, TRUE)
    IN  CASE rows = 0 -> <<>>
          [] rows = 1 -> <<latest>>
          [] rows = 2 -> <<prev, latest>>
          [] OTHER -> <<blank, prev, latest>>

\* technical_indicators.get_latest_signals(df): one of the three line
\* pairs takes every combination of cells, the other two a quiet pair
GetLatestSignals ==
    /\ Idle
    /\ \E rows \in 0..3, varied \in {"ma", "macd", "kdj"}, pair \in LinePairs,
          q1 \in QuietPairs, q2 \in QuietPairs,
          levels \in Levels, prev_levels \in {NoLevels} \cup Levels :
        LET frame == CASE varied = "ma" ->
                            SignalFrame(rows, pair, q1, q2, prev_levels, levels)
                       [] varied = "macd" ->
                            SignalFrame(rows, q1, pair, q2, prev_levels, levels)
                       [] OTHER ->
                            SignalFrame(rows, q1, q2, pair, prev_levels, levels)
        IN  last' = [op |-> "latest_signals", frame |-> frame,
                     ret |-> LatestSignals(frame)]
    /\ UNCHANGED <<created, config, sources, primary_source, is_connected, instance, built, ready,
                 threads>>

\* calculate_kdj: k_period, and the initial value of K and of D
KPeriod == 9
KdjSeed == 50

\* the longest series given to calculate_kdj
MaxKdjRows == 12

RECURSIVE Pow(_, _)
Pow(b, e) == IF e = 0 THEN 1 ELSE b * Pow(b, e - 1)

\* K, D and J are counted in units of 1/KdjScale, which keeps every
\* division by 3 of the recursion exact over MaxKdjRows rows
KdjScale == Pow(3, MaxKdjRows - KPeriod + 2)

\* low.rolling(k_period).min() and high.rolling(k_period).max() at row t
RollingLow(series, t) ==
    IF t < KPeriod THEN NaN
    ELSE Some(MinLow({series[i] : i \in (t - KPeriod + 1)..t}))

RollingHigh(series, t) ==
    IF t < KPeriod THEN NaN
    ELSE Some(MaxHigh({series[i] : i \in (t - KPeriod + 1)..t}))

\* rsv at row t: NaN while the window is incomplete and where the window's
\* high equals its low (0 / 0)
Rsv(series, t) ==
    LET lowest == RollingLow(series, t)
        highest == RollingHigh(series, t)
    IN  IF IsNa(lowest) \/ IsNa(highest) \/ highest = lowest THEN NaN
        ELSE Some(((series[t].close - lowest[1]) * 100 * KdjScale)
                  \div (highest[1] - lowest[1]))

RECURSIVE SmoothedRestarting(_, _)
SmoothedRestarting(values, prev) ==
    IF values = <<>> THEN <<>>
    ELSE IF IsNa(Head(values))
    THEN <<NaN>> \o SmoothedRestarting(Tail(values), KdjSeed * KdjScale)
    ELSE LET current == (2 * prev + Head(values)[1]) \div 3
         IN  <<Some(current)>> \o SmoothedRestarting(Tail(values), current)

\* the loops of calculate_kdj: current = (2/3) * prev + (1/3) * value, NaN
\* for a NaN value, which leaves prev as it is
RECURSIVE Smoothed(_, _)
Smoothed(values, prev) ==
    IF values = <<>> THEN <<>>
    ELSE IF IsNa(Head(values))
    THEN <<NaN>> \o Smoothed(Tail(values), prev)
    ELSE LET current == (2 * prev + Head(values)[1]) \div 3
         IN  <<Some(current)>> \o Smoothed(Tail(values), current)

\* TechnicalIndicators.calculate_kdj
CalculateKdj(series) ==
    LET nan_series == [t \in 1..Len(series) |-> NaN]
    IN  IF Len(series) < KPeriod
        THEN [kdj_k |-> nan_series, kdj_d |-> nan_series, kdj_j |-> nan_series]
        ELSE
        LET rsv == [t \in 1..Len(series) |-> Rsv(series, t)]
            k_series == Smoothed(rsv, KdjSeed * KdjScale)
            d_series == Smoothed(k_series, KdjSeed * KdjScale)
        IN  [kdj_k |-> k_series,
             kdj_d |-> d_series,
             kdj_j |-> [t \in 1..Len(series) |->
                          IF IsNa(k_series[t]) \/ IsNa(d_series[t]) THEN NaN
                          ELSE Some(3 * k_series[t][1] - 2 * d_series[t][1])]]

\* bars for calculate_kdj: a bar without range and three bars of the same
\* range closing at its low, its middle and its high
FlatBar == [high |-> 1000, low |-> 1000, close |-> 1000, volume |-> 1]

KdjBars ==
    {FlatBar} \cup
    {[high |-> 1100, low |-> 1000, close |-> c, volume |-> 1] : c \in {1000, 1050, 1100}}

\* technical_indicators.calculate_kdj(high, low, close): the first row and
\* the rows from k_period on take every bar, the rows between are flat
CalculateKdjSeries ==
    /\ Idle
    /\ \E n \in (KPeriod - 1)..MaxKdjRows :
       \E bars \in [{1} \cup (KPeriod..n) -> KdjBars] :
        LET series == [t \in 1..n |-> IF t \in DOMAIN bars THEN bars[t] ELSE FlatBar]
        IN  last' = [op |-> "kdj", series |-> series, ret |-> CalculateKdj(series)]
    /\ UNCHANGED <<created, config, sources, primary_source, is_connected, instance, built, ready,
                 threads>>

\* the longest series given to calculate_ma and to calculate_obv
MaxMaRows == 6
MaxObvRows == 4

\* the windows calculate_ma is asked for, and a scale every window divides:
\* a mean is counted in units of 1/MaScale
MaPeriods == {2, 3, 5}

MaScale == 2 * 3 * 5

RECURSIVE SumSeq(_)
SumSeq(values) == IF values = <<>> THEN 0 ELSE Head(values) + SumSeq(Tail(values))

RollingMeanPartial(prices, period, t) ==
    LET from == Max(1, t - period + 1)
    IN  Some((SumSeq(SubSeq(prices, from, t)) * MaScale) \div (t - from + 1))

\* prices.rolling(window=period).mean() at row t: NaN until the window is
\* full
RollingMean(prices, period, t) ==
    IF t < period THEN NaN
    ELSE Some((SumSeq(SubSeq(prices, t - period + 1, t)) * MaScale) \div period)

\* TechnicalIndicators.calculate_ma for one period
CalculateMa(prices, period) ==
    IF Len(prices) >= period
    THEN [t \in 1..Len(prices) |-> RollingMean(prices, period, t)]
    ELSE [t \in 1..Len(prices) |-> NaN]

ClosePrices == {10, 20, 40}

\* technical_indicators.calculate_ma(prices, [period])
CalculateMaSeries ==
    /\ Idle
    /\ \E n \in 0..MaxMaRows, period \in MaPeriods :
       \E prices \in [1..n -> ClosePrices] :
        last' = [op |-> "ma", prices |-> prices, period |-> period,
                 ret |-> CalculateMa(prices, period)]
    /\ UNCHANGED <<created, config, sources, primary_source, is_connected, instance, built, ready,
                 threads>>

RECURSIVE ObvLoopResetting(_, _, _, _)
ObvLoopResetting(close, volume, i, obv_current) ==
    IF i > Len(close) THEN <<>>
    ELSE IF i = 1 \/ IsNa(close[i]) \/ IsNa(close[i - 1]) \/ IsNa(volume[i])
    THEN <<NaN>> \o ObvLoopResetting(close, volume, i + 1, 0)
    ELSE LET next == IF close[i][1] > close[i - 1][1] THEN obv_current + volume[i][1]
                     ELSE IF close[i][1] < close[i - 1][1]
                     THEN obv_current - volume[i][1] ELSE obv_current
         IN  <<Some(next)>> \o ObvLoopResetting(close, volume, i + 1, next)

\* the loop of calculate_obv from row i on; price_diff = close.diff() is
\* NaN on the first row and where either close is NaN
RECURSIVE ObvLoop(_, _, _, _)
ObvLoop(close, volume, i, obv_current) ==
    IF i > Len(close) THEN <<>>
    ELSE IF i = 1 \/ IsNa(close[i]) \/ IsNa(close[i - 1]) \/ IsNa(volume[i])
    THEN <<NaN>> \o ObvLoop(close, volume, i + 1, obv_current)
    ELSE LET next == IF close[i][1] > close[i - 1][1] THEN obv_current + volume[i][1]
                     ELSE IF close[i][1] < close[i - 1][1]
                     THEN obv_current - volume[i][1] ELSE obv_current
         IN  <<Some(next)>> \o ObvLoop(close, volume, i + 1, next)

\* TechnicalIndicators.calculate_obv
CalculateObv(close, volume) ==
    IF Len(close) < 2 THEN [t \in 1..Len(close) |-> NaN]
    ELSE ObvLoop(close, volume, 1, 0)

VolumeCells == {NaN, Some(5), Some(7)}

\* technical_indicators.calculate_obv(close, volume)
CalculateObvSeries ==
    /\ Idle
    /\ \E n \in 0..MaxObvRows :
       \E close \in [1..n -> Cells], volume \in [1..n -> VolumeCells] :
        last' = [op |-> "obv", close |-> close, volume |-> volume,
                 ret |-> CalculateObv(close, volume)]
    /\ UNCHANGED <<created, config, sources, primary_source, is_connected, instance, built, ready,
                 threads>>

NextIndicators ==
    \/ Return
    \/ GetLatestSignals
    \/ CalculateKdjSeries
    \/ CalculateMaSeries
    \/ CalculateObvSeries

SpecIndicators == Init /\ [][NextIndicators]_vars

(***************************************************************************)
(* Market status: data_source/base.py and the adapters' overrides.  The    *)
(* clock is a weekday (0 = Monday) and a minute of the day; "%H:%M"       *)
(* strings are zero padded, so comparing them compares minutes.           *)
(***************************************************************************)
\* "09:30", "11:30", "13:00", "15:00" as minutes of the day
MorningStart == 570
MorningEnd == 690
AfternoonStart == 780
AfternoonEnd == 900

Weekdays == 0..6
Minutes == 0..1439

\* every adapter type of the factory
Adapters == Range(Candidates)

\* adapters that replace get_market_status instead of inheriting it
OverridesMarketStatus == {"eastmoney", "sina", "qqstock", "wangyi"}

\* BaseDataSource._get_next_open_time: days from today, and the minute
GetNextOpenTime(weekday, minute) ==
    LET hour == minute \div 60
        days_ahead == IF weekday >= 4 THEN 7 - weekday ELSE 1
    IN  IF weekday < 5 /\ hour < 9 THEN [days_ahead |-> 0, minute |-> MorningStart]
        ELSE IF weekday < 5 /\ 11 <= hour /\ hour < 13
             THEN [days_ahead |-> 0, minute |-> AfternoonStart]
        ELSE [days_ahead |-> days_ahead, minute |-> MorningStart]

\* BaseDataSource.get_market_status.  OPEN is kai-shi, CLOSED is xiu-shi,
\* PRE_OPEN is wei-kai-shi, LUNCH is wu-xiu, AFTER_CLOSE is shou-shi.
BaseMarketStatus(weekday, minute) ==
    LET status ==
            IF ~(weekday < 5) THEN "CLOSED"
            ELSE IF MorningStart <= minute /\ minute <= MorningEnd THEN "OPEN"
            ELSE IF AfternoonStart <= minute /\ minute <= AfternoonEnd THEN "OPEN"
            ELSE IF minute < MorningStart THEN "PRE_OPEN"
            ELSE IF MorningEnd < minute /\ minute < AfternoonStart THEN "LUNCH"
            ELSE "AFTER_CLOSE"
    IN  [status |-> status, is_trading |-> status = "OPEN",
         next_open |-> Some(GetNextOpenTime(weekday, minute))]

\* EastMoneyDataSource / SinaDataSource / QQStockDataSource /
\* WangyiDataSource.get_market_status: TRADING is jiao-yi-zhong; the
\* result has no next_open key
OverrideMarketStatus(weekday, minute) ==
    LET is_trading ==
            /\ weekday < 5
            /\ \/ MorningStart <= minute /\ minute <= MorningEnd
               \/ AfternoonStart <= minute /\ minute <= AfternoonEnd
    IN  [status |-> IF is_trading THEN "TRADING" ELSE "CLOSED",
         is_trading |-> is_trading, next_open |-> NoValue]

\* <adapter>.get_market_status(); AKShareDataSource only adds an index
\* quote to the base result
MarketStatus(adapter, weekday, minute) ==
    IF adapter \in OverridesMarketStatus THEN OverrideMarketStatus(weekday, minute)
    ELSE BaseMarketStatus(weekday, minute)

GetMarketStatus ==
    /\ Idle
    /\ \E adapter \in Adapters, weekday \in Weekdays, minute \in Minutes :
        last' = [op |-> "market", adapter |-> adapter, weekday |-> weekday,
                 minute |-> minute, ret |-> MarketStatus(adapter, weekday, minute)]
    /\ UNCHANGED <<created, config, sources, primary_source, is_connected, instance, built, ready,
                 threads>>

NextMarket == Return \/ GetMarketStatus

SpecMarket == Init /\ [][NextMarket]_vars

(***************************************************************************)
(* A DataSourceManager in the hands of its callers: add_source,            *)
(* set_primary_source and connect_all on the manager the factory returned  *)
(* (an empty configuration gives the manager DataSourceManager() builds).  *)
(***************************************************************************)
\* manager.add_source(source): the adapter object handed over may or may
\* not have been connected before; an adapter of the same name is replaced
AddSourceToManager ==
    /\ Idle
    /\ created
    /\ \E name \in Names, flag \in BOOLEAN :
        LET mgr == AddSource([sources |-> sources, primary_source |-> primary_source], name)
        IN  /\ sources' = mgr.sources
            /\ primary_source' = mgr.primary_source
            /\ is_connected' = [n \in Range(mgr.sources) |->
                                    IF n = name THEN flag ELSE is_connected[n]]
            /\ last' = [op |-> "add_source", name |-> name]
    /\ UNCHANGED <<created, config, instance, built, ready, threads>>

NextManager ==
    \/ Return
    \/ GetDataSourceManager
    \/ AddSourceToManager
    \/ SetPrimarySource
    \/ ConnectAllSources

SpecManager == Init /\ [][NextManager]_vars

(***************************************************************************)
(* get_data_source_manager() called from several threads (the web server   *)
(* runs threaded, and every AnalysisEngine asks for the manager).  The     *)
(* function takes no lock, so the threads interleave between its           *)
(* statements; every statement reads the global name _global_manager anew. *)
(* The callers pass no configuration: all of them read the application's   *)
(* DATA_SOURCES, which the first build fixes.                              *)
(***************************************************************************)
At(t, pc) == threads[t].pc = pc

Goto(t, pc) == [threads EXCEPT ![t].pc = pc]

\* line 147: if _global_manager is None
ThreadCheck ==
    \E t \in Threads :
        /\ At(t, "call")
        /\ threads' = Goto(t, IF NoManager(created) THEN "build" ELSE "return")
        /\ UNCHANGED <<created, config, sources, primary_source, is_connected, instance,
                       built, ready, last>>

\* line 169: _global_manager = DataSourceFactory.create_data_source_manager(config)
ThreadBuild ==
    \E t \in Threads, cfg \in Configs :
        /\ At(t, "build")
        /\ built = 0 \/ cfg = config
        /\ LET mgr == CreateDataSourceManager(cfg)
           IN  /\ created' = TRUE
               /\ config' = cfg
               /\ sources' = mgr.sources
               /\ primary_source' = mgr.primary_source
               /\ is_connected' = [n \in Range(mgr.sources) |-> FALSE]
        /\ instance' = built + 1
        /\ built' = built + 1
        /\ ready' = FALSE
        /\ threads' = Goto(t, "connect")
        /\ UNCHANGED last

\* lines 172-181: connection_results = _global_manager.connect_all(), and
\* the thread's own connected_sources list
ThreadConnect ==
    \E t \in Threads :
        /\ At(t, "connect")
        /\ \E probes \in [Range(sources) -> ProbeOutcomes] :
            LET c == ConnectAll(sources, is_connected, probes, <<>>)
            IN  /\ is_connected' = c.flags
                /\ threads' = [threads EXCEPT
                                  ![t].pc = "select",
                                  ![t].connected = {n \in DOMAIN c.results : c.results[n]}]
        /\ UNCHANGED <<created, config, sources, primary_source, instance, built, ready, last>>

\* lines 184-203: the primary is chosen from the thread's connected_sources
\* and set on the manager the global name holds now
ThreadSelect ==
    \E t \in Threads :
        /\ At(t, "select")
        /\ primary_source' = SelectPrimary(sources, is_connected, threads[t].connected,
                                           primary_source)
        /\ ready' = TRUE
        /\ threads' = Goto(t, "return")
        /\ UNCHANGED <<created, config, sources, is_connected, instance, built, last>>

\* line 205: return _global_manager
ThreadReturn ==
    \E t \in Threads :
        /\ At(t, "return")
        /\ threads' = [threads EXCEPT ![t].pc = "done", ![t].ret = instance,
                                      ![t].ret_ready = ready]
        /\ UNCHANGED <<created, config, sources, primary_source, is_connected, instance,
                       built, ready, last>>

NextThreads ==
    \/ ThreadCheck
    \/ ThreadBuild
    \/ ThreadConnect
    \/ ThreadSelect
    \/ ThreadReturn

SpecThreads == Init /\ [][NextThreads]_vars

(***************************************************************************)
(* Properties of the registry                                              *)
(***************************************************************************)
Registered == Range(sources)

ConnectedNow == {n \in Registered : is_connected[n]}

\* C3: after the registry is initialized with at least one adapter
\* connected, the primary source is a connected adapter and no connected
\* adapter has a smaller configured priority number.
C3_PrimaryIsBestConnected ==
    (last.op = "init" /\ ConnectedNow # {}) =>
        /\ primary_source \in ConnectedNow
        /\ \A m \in ConnectedNow : config[primary_source] <= config[m]

\* C4: if no adapter connects during initialization, the primary source is
\* still set, to an enabled adapter of the smallest configured priority
\* number, the one registered first.
C4_DegradedPrimaryIsFirstConfigured ==
    (last.op = "init" /\ DOMAIN config # {} /\ \A n \in DOMAIN last.results : ~last.results[n]) =>
        /\ primary_source \in DOMAIN config
        /\ \A m \in DOMAIN config : config[primary_source] <= config[m]
        /\ primary_source = sources[1]

C4_Witness ==
    /\ last.op = "init"
    /\ Len(sources) >= 2
    /\ \A n \in DOMAIN last.results : ~last.results[n]
    /\ \E n \in Registered : last.probes[n] = "raise"
    /\ primary_source = sources[1]
    /\ config[sources[1]] < config[sources[2]]

\* the first-success policy over the connected adapters in registration
\* (ascending priority) order: the adapter whose result the policy returns
FirstSuccess(outcomes) ==
    LET avail == GetAvailableSources(sources, is_connected)
        good == {i \in 1..Len(avail) : outcomes[avail[i]] = "data"}
    IN  IF good = {} THEN None
        ELSE avail[CHOOSE i \in good : \A j \in good : i <= j]

\* C5 as stated: when the highest-priority connected adapter fails or
\* returns empty and a lower-priority connected adapter would succeed,
\* get_quote / get_list return that lower-priority adapter's result.
C5_QuoteAndListFailOver ==
    (/\ last.op \in {"quote", "list"}
     /\ FirstSuccess(last.outcomes) # None
     /\ FirstSuccess(last.outcomes) # GetAvailableSources(sources, is_connected)[1]) =>
        /\ last.ret.result = "data"
        /\ last.ret.from = FirstSuccess(last.outcomes)

\* C5 as amended: get_quote / get_list consult the primary source only and
\* return exactly what its call yields (its result, its empty result or its
\* exception); with no registered primary the call raises.
C5_QuoteAndListUsePrimaryOnly ==
    last.op \in {"quote", "list"} =>
        IF primary_source \in Registered
        THEN /\ last.ret.consulted = <<primary_source>>
             /\ last.ret.from = primary_source
             /\ last.ret.result = last.outcomes[primary_source]
        ELSE /\ last.ret.consulted = <<>>
             /\ last.ret.result = "raise"

C5_Witness ==
    /\ last.op = "quote"
    /\ primary_source \in ConnectedNow
    /\ primary_source # sources[1]
    /\ last.outcomes[primary_source] = "empty"
    /\ \E n \in ConnectedNow : last.outcomes[n] = "data"
    /\ last.ret.result = "empty"

\* C7: connect_all never raises; the returned mapping has an entry for
\* every registered adapter, True exactly for the probes that succeeded; a
\* probe that raises is recorded as False and the adapters after it are
\* still probed.
C7_ConnectAllNeverRaises ==
    last.op \in {"connect_all", "init"} =>
        /\ ~last.raised
        /\ DOMAIN last.results = Registered
        /\ \A n \in Registered :
            /\ last.results[n] = (last.probes[n] = "ok")
            /\ last.probes[n] = "ok" => is_connected[n]

C7_Witness ==
    /\ last.op = "connect_all"
    /\ ~last.raised
    /\ \E i, j \in 1..Len(sources) :
        /\ i < j
        /\ last.probes[sources[i]] = "raise"
        /\ last.probes[sources[j]] = "ok"
        /\ ~last.results[sources[i]]
        /\ last.results[sources[j]]

(***************************************************************************)
(* Properties of the history fetch and of analyze_stock                    *)
(***************************************************************************)
Avail == GetAvailableSources(sources, is_connected)

Calls == last.hist.calls

CallsFor(window) == SelectSeq(Calls, LAMBDA c : c.window = window)

\* C1: a history fetch consults connected adapters only, in ascending
\* configured priority order starting with the first connected one, makes
\* no call after a non-empty result, and returns exactly the series of the
\* adapter that gave it (never a merge).
C1_FirstNonEmptyByPriority ==
    (last.op = "analyze" /\ Calls # <<>>) =>
        /\ \A i \in 1..Len(Calls) :
            /\ Calls[i].name \in Registered
            /\ is_connected[Calls[i].name]
            /\ Calls[i].outcome = "data" => i = Len(Calls)
        /\ \A i, j \in 1..Len(Calls) :
            (i < j /\ Calls[i].window = Calls[j].window) =>
                config[Calls[i].name] <= config[Calls[j].name]
        /\ \A i \in 1..Len(CallsFor("full")) : CallsFor("full")[i].name = Avail[i]
        /\ LET c == Calls[Len(Calls)]
           IN  last.hist.df = IF c.outcome = "data" THEN Frame(c.name, c.window)
                              ELSE EmptyFrame

C1_Witness ==
    /\ last.op = "analyze"
    /\ Len(sources) >= 3
    /\ ~is_connected[sources[1]]
    /\ is_connected[sources[2]]
    /\ is_connected[sources[3]]
    /\ config[sources[2]] < config[sources[3]]
    /\ Len(Calls) = 1
    /\ Calls[1] = [name |-> sources[2], window |-> "full", outcome |-> "data"]
    /\ last.hist.df = Frame(sources[2], "full")

\* C2: the 30-day pass runs iff the full-window pass got nothing from any
\* connected adapter and the window exceeds 30 days; it follows the same
\* order; an adapter is called at most once per pass; the result is empty
\* only when no call of any pass returned data.
C2_ShortRetry ==
    (last.op = "analyze" /\ ~last.hist.cached /\ last.cache # "raise") =>
        LET full == CallsFor("full")
            short == CallsFor("short")
        IN  /\ Calls = full \o short
            /\ last.hist.retried <=>
                   /\ Len(full) = Len(Avail)
                   /\ \A i \in 1..Len(full) : full[i].outcome # "data"
                   /\ last.days > ShortWindowDays
            /\ ~last.hist.retried => short = <<>>
            /\ last.hist.retried =>
                   /\ \A i \in 1..Len(short) : short[i].name = Avail[i]
                   /\ \/ Len(short) = Len(Avail)
                      \/ short[Len(short)].outcome = "data"
            /\ \A i, j \in 1..Len(Calls) :
                   (i < j /\ Calls[i].window = Calls[j].window) =>
                       Calls[i].name # Calls[j].name
            /\ \A n \in Registered :
                   Cardinality({i \in 1..Len(Calls) : Calls[i].name = n}) <= 2
            /\ (last.hist.df = EmptyFrame) <=>
                   \A i \in 1..Len(Calls) : Calls[i].outcome # "data"

C2_Witness ==
    /\ last.op = "analyze"
    /\ last.hist.retried
    /\ Len(Avail) >= 2
    /\ Len(CallsFor("full")) = Len(Avail)
    /\ Len(CallsFor("short")) = 2
    /\ CallsFor("short")[2].outcome = "data"
    /\ last.hist.df = Frame(Avail[2], "short")

\* C6: an exception of an adapter's history fetch never leaves the history
\* fetch; after it the next connected adapter of the same pass is called,
\* and an empty series is returned only after every pass that had to run
\* went through every connected adapter.
C6_FetchExceptionsNotPropagated ==
    last.op = "analyze" =>
        /\ last.hist.raised => (last.cache = "raise" /\ Calls = <<>>)
        /\ \A i \in 1..Len(Calls) :
            Calls[i].outcome = "raise" =>
                LET k == Pos(Avail, Calls[i].name)
                IN  IF k < Len(Avail)
                    THEN /\ i < Len(Calls)
                         /\ Calls[i + 1].name = Avail[k + 1]
                         /\ Calls[i + 1].window = Calls[i].window
                    ELSE \/ i = Len(Calls)
                         \/ Calls[i].window = "full" /\ Calls[i + 1].window = "short"
        /\ (Calls # <<>> /\ last.hist.df = EmptyFrame) =>
            /\ Len(CallsFor("full")) = Len(Avail)
            /\ last.days > ShortWindowDays => Len(CallsFor("short")) = Len(Avail)

C6_Witness ==
    /\ last.op = "analyze"
    /\ Len(Calls) = 2
    /\ Calls[1].outcome = "raise"
    /\ Calls[1].window = "full"
    /\ Calls[2].outcome = "data"
    /\ Calls[2].window = "full"
    /\ last.hist.df = Frame(Calls[2].name, "full")
    /\ ~last.hist.raised

\* C8: when the history fetch ends empty (every adapter and the retry
\* exhausted, nothing usable in the cache), analyze_stock raises nothing
\* and returns status 'error' with a message and no data, indicators,
\* signals, charts or summary.
C8_ExhaustedGivesErrorResult ==
    (last.op = "analyze" /\ last.hist.df = EmptyFrame) =>
        /\ ~last.ret.raised
        /\ last.ret.result = ErrorResult

C8_Witness ==
    /\ last.op = "analyze"
    /\ last.cache = "miss"
    /\ last.hist.retried
    /\ Len(Avail) >= 2
    /\ Len(Calls) = 2 * Len(Avail)
    /\ last.hist.df = EmptyFrame
    /\ last.ret.result.status = "error"
    /\ last.ret.result.data = Unset

\* C9: whenever a non-empty series was obtained, analyze_stock returns
\* status 'success' with data, indicators, signals and summary populated,
\* whether or not saving the bars, saving the indicators or rendering the
\* charts fails.
C9_CollaboratorFailuresNonFatal ==
    (last.op = "analyze" /\ last.hist.df # EmptyFrame) =>
        /\ ~last.ret.raised
        /\ last.ret.result.status = "success"
        /\ last.ret.result.data = "set"
        /\ last.ret.result.indicators = "set"
        /\ last.ret.result.signals = "set"
        /\ last.ret.result.summary = "set"
        /\ last.ret.result.charts # Unset

C9_Witness ==
    /\ last.op = "analyze"
    /\ Calls # <<>>
    /\ last.hist.df # EmptyFrame
    /\ last.hist.saved = "raise"
    /\ last.render = "raise"
    /\ last.write = "raise"
    /\ last.ret.result.status = "success"

(***************************************************************************)
(* Properties of generate_trading_signals                                  *)
(***************************************************************************)
\* C10: if a stage of generate_trading_signals fails unexpectedly, no
\* exception reaches the caller and the returned recommendation has action
\* HOLD and carries the reason of the failure.
C10_FailureGivesHold ==
    (last.op = "signals" /\ last.ret.failed # "none") =>
        /\ ~last.ret.raised
        /\ last.ret.result.action = "HOLD"
        /\ last.ret.result.reasons # <<>>
        /\ last.ret.result.reasons[Len(last.ret.result.reasons)] = "error"

(***************************************************************************)
(* Properties of the turtle systems                                        *)
(***************************************************************************)
Entered(system) == system.entry_signal \in {"BUY", "SELL"}

Exited(system) == system.exit_signal # "NONE"

AboveSixTenths(system) == system.confidence.num > 600 * system.confidence.den

\* C11: the combined turtle signal is the System 2 entry signal whenever
\* there is one; otherwise the System 1 entry signal if System 1's
\* confidence is strictly greater than 0.6; otherwise EXIT if either system
\* has an exit signal; otherwise HOLD.
C11_CombinedSignalPrecedence ==
    (last.op = "turtle" /\ ~last.ret.error) =>
        LET s1 == last.ret.system1
            s2 == last.ret.system2
            honoured == Entered(s1) /\ AboveSixTenths(s1)
        IN  last.ret.combined_signal =
                CASE Entered(s2) -> s2.entry_signal
                  [] ~Entered(s2) /\ honoured -> s1.entry_signal
                  [] ~Entered(s2) /\ ~honoured /\ (Exited(s1) \/ Exited(s2)) -> "EXIT"
                  [] OTHER -> "HOLD"

\* a System 1 entry at confidence exactly 0.6 with no System 2 entry is not
\* honoured, and the exit signal gives EXIT
C11_Witness ==
    /\ last.op = "turtle"
    /\ ~last.ret.error
    /\ ~Entered(last.ret.system2)
    /\ last.ret.system1.entry_signal = "BUY"
    /\ last.ret.system1.confidence.num = 600 * last.ret.system1.confidence.den
    /\ Exited(last.ret.system1)
    /\ last.ret.combined_signal = "EXIT"

\* C12: for a series of at least entry_period + 1 bars, breakout_high and
\* breakout_low are the highest high and the lowest low of the entry_period
\* bars before the latest bar; a latest high above that highest high gives
\* entry_signal BUY, otherwise a latest low below that lowest low gives
\* SELL, and the confidence of an entry lies within [0.1, 0.9].
C12_EntryBreakout ==
    (last.op = "system" /\ Len(last.series) >= EntryPeriod(last.system_num) + 1) =>
        LET n == Len(last.series)
            window == (n - EntryPeriod(last.system_num))..(n - 1)
            latest == last.series[n]
            r == last.ret
        IN  /\ r.breakout_high # NoValue
            /\ r.breakout_low # NoValue
            /\ \A i \in window : /\ last.series[i].high <= r.breakout_high[1]
                                 /\ last.series[i].low >= r.breakout_low[1]
            /\ \E i \in window : last.series[i].high = r.breakout_high[1]
            /\ \E i \in window : last.series[i].low = r.breakout_low[1]
            /\ latest.high > r.breakout_high[1] => r.entry_signal = "BUY"
            /\ (latest.high <= r.breakout_high[1] /\ latest.low < r.breakout_low[1])
                   => r.entry_signal = "SELL"
            /\ Entered(r) => /\ r.confidence.num >= 100 * r.confidence.den
                             /\ r.confidence.num <= 900 * r.confidence.den

\* System 1 on 25 bars: the latest high breaks the 20-bar high although an
\* older bar, outside the window, is higher still
C12_Witness ==
    /\ last.op = "system"
    /\ last.system_num = 1
    /\ Len(last.series) = System1EntryPeriod + 5
    /\ last.ret.entry_signal = "BUY"
    /\ last.ret.breakout_high = Some(1000)
    /\ last.series[Len(last.series)].high = 1050
    /\ \E i \in 1..Len(last.series) : last.series[i].high = 1100

(***************************************************************************)
(* Properties of the combiner                                              *)
(***************************************************************************)
\* the turtle score the claim assigns to a turtle result, in thousandths
ClaimedTurtleScore(turtle) ==
    CASE turtle.recommendation = "BUY"  -> turtle.confidence
      [] turtle.recommendation = "SELL" -> 0 - turtle.confidence
      [] turtle.recommendation = "EXIT" -> -800
      [] OTHER -> 0

\* C13: the final score is traditional_score * (1 - w) + turtle_score * w
\* with w = 0.6 and turtle_score +confidence for BUY, -confidence for SELL,
\* -0.8 for EXIT and 0 otherwise; the action is BUY iff score > 0.3, SELL
\* iff score < -0.3, else HOLD; confidence is min(0.9, 0.5 + |score|) for
\* BUY and SELL and 0.5 for HOLD.  Scores here are in millionths.
C13_WeightedScoreDecides ==
    last.op = "decision" =>
        LET t == last.traditional.trend + last.traditional.technical
                 + last.traditional.volume
            score == t * 400 + ClaimedTurtleScore(last.turtle) * 600
            r == last.ret
        IN  /\ r.total_score = score
            /\ (r.action = "BUY") <=> (score > 300000)
            /\ (r.action = "SELL") <=> (score < -300000)
            /\ r.action \in {"BUY", "SELL", "HOLD"}
            /\ r.action = "HOLD" => r.confidence = 500
            /\ r.action # "HOLD" =>
                 r.confidence = Min(900, 500 + (Abs(score) \div 1000))
            /\ (t = 500 /\ ClaimedTurtleScore(last.turtle) = 0) =>
                 (score = 200000 /\ r.action = "HOLD")
            /\ (t = 0 /\ ClaimedTurtleScore(last.turtle) = 600) =>
                 (score = 360000 /\ r.action = "BUY")

\* a score of exactly 0.3 (no traditional signal, turtle BUY at confidence
\* 0.5) stays HOLD
C13_Witness ==
    /\ last.op = "decision"
    /\ last.turtle.recommendation = "BUY"
    /\ last.turtle.confidence = 500
    /\ last.traditional = [trend |-> 0, technical |-> 0, volume |-> 0]
    /\ last.ret.total_score = 300000
    /\ last.ret.action = "HOLD"

\* C14: for BUY or SELL the stop-loss and the position size are the turtle
\* result's whenever it carries a stop-loss (a non-zero price); otherwise
\* the stop-loss is 8% and the take-profit 15% from the entry price on the
\* side of the action, and the position size is 5%, 10% or 15% for a
\* volatility above 5%, above 3%, or lower; for HOLD neither stop-loss nor
\* take-profit is set.
C14_RiskParameters ==
    last.op = "risk" =>
        LET r == last.ret
            carried == last.turtle.stop_loss # NoValue /\ last.turtle.stop_loss[1] # 0
        IN  /\ (last.action \in {"BUY", "SELL"} /\ carried) =>
                 /\ r.stop_loss = last.turtle.stop_loss
                 /\ r.position_size = last.turtle.position_size
            /\ (last.action = "BUY" /\ ~carried) =>
                 /\ r.stop_loss = Some((last.price * 92) \div 100)
                 /\ r.take_profit = Some((last.price * 115) \div 100)
            /\ (last.action = "SELL" /\ ~carried) =>
                 /\ r.stop_loss = Some((last.price * 108) \div 100)
                 /\ r.take_profit = Some((last.price * 85) \div 100)
            /\ (last.action \in {"BUY", "SELL"} /\ ~carried) =>
                 r.position_size = CASE last.volatility = "high" -> 500
                                     [] last.volatility = "medium" -> 1000
                                     [] OTHER -> 1500
            /\ last.action = "HOLD" =>
                 (r.stop_loss = NoValue /\ r.take_profit = NoValue)

\* a BUY whose turtle result carries a stop-loss and a position size other
\* than the default
C14_Witness ==
    /\ last.op = "risk"
    /\ last.action = "BUY"
    /\ last.turtle.stop_loss # NoValue
    /\ last.turtle.position_size # DefaultPositionSize
    /\ last.volatility = "low"
    /\ last.ret.stop_loss = last.turtle.stop_loss
    /\ last.ret.position_size = last.turtle.position_size

\* C15: for a combined BUY or SELL the position size is 2% of the capital
\* divided by the ATR, as a fraction of the capital, capped at 5%: it never
\* exceeds 0.05, and below the cap it equals 0.02 / ATR.  Position sizes
\* are in basis points and the ATR in cents, so 0.02 / ATR is 20000 / atr.
C15_PositionSizeCapped ==
    (last.op = "turtle" /\ ~last.ret.error
        /\ last.ret.combined_signal \in {"BUY", "SELL"}) =>
        /\ last.ret.position_size <= 500
        /\ last.ret.position_size < 500 =>
             (last.atr > 0 /\ last.ret.position_size * last.atr = 20000)
        /\ (last.atr > 0 /\ 20000 <= 500 * last.atr) =>
             last.ret.position_size * last.atr = 20000

\* an entry with an ATR so small that the cap binds
C15_Witness ==
    /\ last.op = "turtle"
    /\ ~last.ret.error
    /\ last.ret.combined_signal = "BUY"
    /\ last.atr = 25
    /\ last.ret.position_size = 500

(***************************************************************************)
(* Properties of the risk assessment                                       *)
(***************************************************************************)
\* C16: every score below 30 is LOW, every score from 30 up to but
\* excluding 60 is MEDIUM, every score of 60 or more is HIGH; in particular
\* 29.9 is LOW, 30.0 MEDIUM, 59.9 MEDIUM and 60.0 HIGH (scores in tenths).
C16_RiskLevelThresholds ==
    last.op = "level" =>
        /\ last.score < 300 => last.ret = "LOW"
        /\ (last.score >= 300 /\ last.score < 600) => last.ret = "MEDIUM"
        /\ last.score >= 600 => last.ret = "HIGH"
        /\ last.score = 299 => last.ret = "LOW"
        /\ last.score = 599 => last.ret = "MEDIUM"

\* a score of exactly 30.0 is MEDIUM
C16_Witness ==
    /\ last.op = "level"
    /\ last.score = 300
    /\ last.ret = "MEDIUM"

\* C17: with no bars or fewer than 10 bars the assessment is
\* 'data_insufficient' with score 0 and no factors; a failure gives
\* 'error'; only otherwise is the score the unweighted mean of exactly five
\* factor scores, each within 0..100, graded LOW, MEDIUM or HIGH.
C17_UnscoredOutcomesDistinct ==
    last.op = "assess" =>
        LET r == last.ret
            scored == last.read = "rows" /\ last.rows >= 10
        IN  /\ (last.read = "rows" /\ last.rows < 10) =>
                 /\ r.risk_level = "data_insufficient"
                 /\ r.risk_score = 0
                 /\ r.risk_factors = <<>>
            /\ last.read = "raise" =>
                 (r.risk_level = "error" /\ r.risk_score = 0 /\ r.risk_factors = <<>>)
            /\ scored =>
                 /\ Len(r.risk_factors) = 5
                 /\ \A k \in 1..5 : r.risk_factors[k] \in 0..100
                 /\ r.risk_score * 5 =
                      10 * (r.risk_factors[1] + r.risk_factors[2] + r.risk_factors[3]
                            + r.risk_factors[4] + r.risk_factors[5])
                 /\ r.risk_level \in {"LOW", "MEDIUM", "HIGH"}
                 /\ (r.risk_level = "LOW") <=> (r.risk_score < 300)
                 /\ (r.risk_level = "HIGH") <=> (r.risk_score >= 600)
            /\ r.risk_level \in {"LOW", "MEDIUM", "HIGH"} => scored

\* exactly 10 bars are enough: the assessment is scored
C17_Witness ==
    /\ last.op = "assess"
    /\ last.read = "rows"
    /\ last.rows = 10
    /\ Len(last.ret.risk_factors) = 5
    /\ last.ret.risk_level = "HIGH"

(***************************************************************************)
(* Properties of the signal detector                                       *)
(***************************************************************************)
\* the columns each signal compares
SignalInputs(signal) ==
    CASE signal \in {"ma_golden_cross", "ma_death_cross"} -> {"ma5", "ma20"}
      [] signal \in {"macd_golden_cross", "macd_death_cross"} -> {"macd", "macd_signal"}
      [] signal \in {"kdj_golden_cross", "kdj_death_cross"} -> {"kdj_k", "kdj_d"}
      [] signal \in {"rsi_overbought", "rsi_oversold"} -> {"rsi"}
      [] OTHER -> {"close", "boll_upper", "boll_lower"}

IsCrossover(signal) == SignalInputs(signal) \cap {"ma5", "macd", "kdj_k"} # {}

\* C18 as stated: a signal is reported only when every input it compares is
\* non-NaN on both of the two most recent rows, and with fewer than two
\* rows nothing is reported.
C18_SignalsNeedInputsOnBothRows ==
    last.op = "latest_signals" =>
        /\ Len(last.frame) < 2 => last.ret = {}
        /\ \A signal \in last.ret : \A column \in SignalInputs(signal) :
             /\ ~IsNa(last.frame[Len(last.frame)][column])
             /\ ~IsNa(last.frame[Len(last.frame) - 1][column])

\* C18 amended: a crossover signal is reported only when both of its inputs
\* are non-NaN on the previous and on the latest row; a level signal (rsi,
\* bands) only when its inputs are non-NaN on the latest row; with fewer
\* than two rows nothing is reported.
C18_SignalsNeedComparedInputs ==
    last.op = "latest_signals" =>
        /\ Len(last.frame) < 2 => last.ret = {}
        /\ \A signal \in last.ret : \A column \in SignalInputs(signal) :
             /\ ~IsNa(last.frame[Len(last.frame)][column])
             /\ IsCrossover(signal) => ~IsNa(last.frame[Len(last.frame) - 1][column])

\* ma5 is NaN on the previous row and above ma20 on the latest: no cross is
\* reported, while rsi, NaN on the previous row, reports overbought
C18_Witness ==
    /\ last.op = "latest_signals"
    /\ Len(last.frame) >= 2
    /\ IsNa(last.frame[Len(last.frame) - 1].ma5)
    /\ IsNa(last.frame[Len(last.frame) - 1].rsi)
    /\ Gt(last.frame[Len(last.frame)].ma5, last.frame[Len(last.frame)].ma20)
    /\ "ma_golden_cross" \notin last.ret
    /\ "rsi_overbought" \in last.ret

Crossovers ==
    {<<"ma", "ma5", "ma20">>, <<"macd", "macd", "macd_signal">>,
     <<"kdj", "kdj_k", "kdj_d">>}

\* C19 as stated: a golden (death) cross is reported only when the fast
\* line is strictly below (above) the slow line on the previous row and
\* strictly above (below) it on the latest row.
C19_CrossNeedsStrictFlip ==
    (last.op = "latest_signals" /\ Len(last.frame) >= 2) =>
        \A c \in Crossovers :
            LET prev == last.frame[Len(last.frame) - 1]
                latest == last.frame[Len(last.frame)]
            IN  /\ (c[1] \o "_golden_cross") \in last.ret =>
                     (Lt(prev[c[2]], prev[c[3]]) /\ Gt(latest[c[2]], latest[c[3]]))
                /\ (c[1] \o "_death_cross") \in last.ret =>
                     (Gt(prev[c[2]], prev[c[3]]) /\ Lt(latest[c[2]], latest[c[3]]))

\* C19 amended: a golden (death) cross is reported exactly when the fast
\* line is below or equal to (above or equal to) the slow line on the
\* previous row and strictly above (below) it on the latest row.
C19_CrossOnFlipFromAtOrBelow ==
    (last.op = "latest_signals" /\ Len(last.frame) >= 2) =>
        \A c \in Crossovers :
            LET prev == last.frame[Len(last.frame) - 1]
                latest == last.frame[Len(last.frame)]
                present == \A column \in {c[2], c[3]} :
                               prev[column] # NaN /\ latest[column] # NaN
            IN  /\ (c[1] \o "_golden_cross") \in last.ret <=>
                     /\ present
                     /\ prev[c[2]][1] <= prev[c[3]][1]
                     /\ latest[c[2]][1] > latest[c[3]][1]
                /\ (c[1] \o "_death_cross") \in last.ret <=>
                     /\ present
                     /\ prev[c[2]][1] >= prev[c[3]][1]
                     /\ latest[c[2]][1] < latest[c[3]][1]

\* the lines are equal on the previous row and the fast line is above on
\* the latest: a golden cross is reported
C19_Witness ==
    /\ last.op = "latest_signals"
    /\ Len(last.frame) >= 2
    /\ last.frame[Len(last.frame) - 1].ma5 = Some(2)
    /\ last.frame[Len(last.frame) - 1].ma20 = Some(2)
    /\ Gt(last.frame[Len(last.frame)].ma5, last.frame[Len(last.frame)].ma20)
    /\ "ma_golden_cross" \in last.ret

(***************************************************************************)
(* Properties of calculate_kdj                                             *)
(***************************************************************************)
\* the rows of the k_period window ending at row t
KdjWindow(t) == (t - KPeriod + 1)..t

\* row t has a valid rsv: its window is complete and has a range
ValidRsv(series, t) ==
    /\ t >= KPeriod
    /\ \E i \in KdjWindow(t), j \in KdjWindow(t) : series[i].high # series[j].low

\* the value carried into row t: that of the latest earlier valid row, or
\* the seed
Carried(series, values, t) ==
    LET earlier == {u \in 1..(t - 1) : ValidRsv(series, u)}
    IN  IF earlier = {} THEN KdjSeed * KdjScale
        ELSE values[CHOOSE u \in earlier : \A v \in earlier : v <= u][1]

\* C20: K_t = (2/3) K_{t-1} + (1/3) rsv_t and D_t = (2/3) D_{t-1} + (1/3) K_t
\* with the carried K and D both 50 at the first valid rsv row, J = 3K - 2D
\* on every row; a row without a valid rsv is NaN for K, D and J and leaves
\* the carried K and D unchanged.
C20_KdjRecursion ==
    last.op = "kdj" =>
        \A t \in 1..Len(last.series) :
            LET k == last.ret.kdj_k
                d == last.ret.kdj_d
                j == last.ret.kdj_j
                lo == CHOOSE l \in {last.series[i].low : i \in KdjWindow(t)} :
                          \A i \in KdjWindow(t) : l <= last.series[i].low
                hi == CHOOSE h \in {last.series[i].high : i \in KdjWindow(t)} :
                          \A i \in KdjWindow(t) : h >= last.series[i].high
            IN  IF ValidRsv(last.series, t)
                THEN /\ k[t] # NaN /\ d[t] # NaN /\ j[t] # NaN
                     /\ 3 * k[t][1] * (hi - lo) =
                          2 * Carried(last.series, k, t) * (hi - lo)
                          + (last.series[t].close - lo) * 100 * KdjScale
                     /\ 3 * d[t][1] = 2 * Carried(last.series, d, t) + k[t][1]
                     /\ j[t][1] = 3 * k[t][1] - 2 * d[t][1]
                ELSE k[t] = NaN /\ d[t] = NaN /\ j[t] = NaN

\* a row without range between two valid rows: the second valid row
\* continues from the first
C20_Witness ==
    /\ last.op = "kdj"
    /\ Len(last.series) >= KPeriod + 2
    /\ ValidRsv(last.series, KPeriod)
    /\ ~ValidRsv(last.series, KPeriod + 1)
    /\ ValidRsv(last.series, KPeriod + 2)
    /\ last.ret.kdj_k[KPeriod][1] # KdjSeed * KdjScale
    /\ last.ret.kdj_k[KPeriod + 1] = NaN
    /\ last.ret.kdj_k[KPeriod + 2] # NaN

(***************************************************************************)
(* Properties of calculate_ma and calculate_obv                            *)
(***************************************************************************)
RECURSIVE CloseSum(_, _, _)
CloseSum(prices, from, to) ==
    IF from > to THEN 0 ELSE prices[to] + CloseSum(prices, from, to - 1)

\* C21: for a window n the moving average of L < n closes is NaN on every
\* row; for L >= n exactly the first n - 1 rows are NaN and every row from
\* the n-th on is the mean of its trailing n closes (the n-th row that of
\* the first n closes); the output has exactly L rows.
C21_MovingAverage ==
    last.op = "ma" =>
        LET L == Len(last.prices)
            n == last.period
        IN  /\ Len(last.ret) = L
            /\ L < n => \A t \in 1..L : last.ret[t] = NaN
            /\ L >= n =>
                 /\ \A t \in 1..(n - 1) : last.ret[t] = NaN
                 /\ \A t \in n..L :
                      /\ last.ret[t] # NaN
                      /\ last.ret[t][1] * n = MaScale * CloseSum(last.prices, t - n + 1, t)

\* a series one longer than the window: the NaN rows, the mean of the first
\* n closes, and a different mean on the last row
C21_Witness ==
    /\ last.op = "ma"
    /\ Len(last.prices) = last.period + 1
    /\ last.ret[last.period - 1] = NaN
    /\ last.ret[last.period] # NaN
    /\ last.ret[last.period + 1] # last.ret[last.period]

\* row i of calculate_obv has a delta and a volume
ObvRowPresent(close, volume, i) ==
    i >= 2 /\ close[i] # NaN /\ close[i - 1] # NaN /\ volume[i] # NaN

\* the signed volumes of the rows up to i that have a delta and a volume
RECURSIVE SignedVolume(_, _, _)
SignedVolume(close, volume, i) ==
    IF i < 2 THEN 0
    ELSE SignedVolume(close, volume, i - 1)
         + (IF ~ObvRowPresent(close, volume, i) THEN 0
            ELSE IF close[i][1] > close[i - 1][1] THEN volume[i][1]
            ELSE IF close[i][1] < close[i - 1][1] THEN 0 - volume[i][1] ELSE 0)

\* C22: OBV is a running sum that adds the bar's volume when the close
\* rises against the prior bar, subtracts it when the close falls and is
\* unchanged when it is equal; the first row and every row whose delta or
\* volume is missing is NaN, and the sum is never reset: after NaN rows it
\* continues from its previous value.
C22_ObvRunningSum ==
    last.op = "obv" =>
        /\ Len(last.ret) = Len(last.close)
        /\ \A i \in 1..Len(last.close) :
             IF Len(last.close) >= 2 /\ ObvRowPresent(last.close, last.volume, i)
             THEN last.ret[i] = Some(SignedVolume(last.close, last.volume, i))
             ELSE last.ret[i] = NaN

\* a rise, then a row without volume, then a rise: the last row continues
\* from the value before the NaN row
C22_Witness ==
    /\ last.op = "obv"
    /\ Len(last.close) = 4
    /\ last.ret[2] = Some(5)
    /\ last.ret[3] = NaN
    /\ last.ret[4] = Some(12)

(***************************************************************************)
(* Properties of the registry singleton                                    *)
(***************************************************************************)
\* the call just made was get_data_source_manager
ManagerRequested == last'.op \in {"init", "get"}

\* C23: every get_data_source_manager call made while a manager exists
\* returns that same instance, whatever configuration it is handed: the
\* registered set, its order, the connection flags and the primary stay as
\* they are and no adapter is probed; the instance held changes only when
\* reset_data_source_manager drops it, and only then does the next call
\* build and probe a new manager, which it returns.
C23_SingletonUntilReset ==
    [][/\ (ManagerRequested /\ created) =>
            /\ last'.op = "get"
            /\ last'.ret = instance
            /\ UNCHANGED <<created, config, sources, primary_source, is_connected,
                           instance, built, ready>>
       /\ (ManagerRequested /\ ~created) =>
            /\ last'.op = "init"
            /\ built' = built + 1
            /\ instance' = built'
            /\ last'.ret = instance'
            /\ config' = last'.config_arg
            /\ DOMAIN last'.probes = DOMAIN config'
       /\ instance' # instance =>
            \/ last'.op = "reset" /\ instance' = 0
            \/ last'.op = "init" /\ instance = 0]_vars

\* a second call hands over a configuration other than the one in force
C23_Witness ==
    /\ last.op = "get"
    /\ created
    /\ built = MaxBuilds
    /\ last.config_arg # config
    /\ last.ret = instance

(***************************************************************************)
(* Properties of the market status                                         *)
(***************************************************************************)
\* C24: at every minute of the week every adapter's get_market_status
\* reports the status value and the is_trading flag that the base
\* implementation reports for that weekday and time.
C24_StatusSameAcrossAdapters ==
    last.op = "market" =>
        LET base == BaseMarketStatus(last.weekday, last.minute)
        IN  /\ last.ret.status = base.status
            /\ last.ret.is_trading = base.is_trading

\* the first trading day after the given weekday, as days from it
DaysToNextTradingDay(weekday) == IF weekday >= 4 THEN 7 - weekday ELSE 1

\* start of the earliest session (Monday to Friday, 09:30 or 13:00) that
\* begins after the given time
EarliestSessionAfter(weekday, minute) ==
    IF weekday < 5 /\ minute < MorningStart
    THEN [days_ahead |-> 0, minute |-> MorningStart]
    ELSE IF weekday < 5 /\ minute < AfternoonStart
         THEN [days_ahead |-> 0, minute |-> AfternoonStart]
    ELSE [days_ahead |-> DaysToNextTradingDay(weekday), minute |-> MorningStart]

\* C30: the next_open of the base get_market_status is the start of the
\* earliest trading session beginning after the current time: the same
\* day's 09:30 whenever the status is PRE_OPEN, the same day's 13:00 during
\* the morning session and the lunch break.
C30_NextOpenIsEarliestSession ==
    (last.op = "market" /\ last.adapter \notin OverridesMarketStatus) =>
        /\ last.ret.next_open = Some(EarliestSessionAfter(last.weekday, last.minute))
        /\ last.ret.status = "PRE_OPEN" =>
                last.ret.next_open = Some([days_ahead |-> 0, minute |-> MorningStart])

(***************************************************************************)
(* Properties of the connection flags                                      *)
(***************************************************************************)
\* C25: after any sequence of probes, every adapter's is_connected equals
\* what its most recent connect() returned (a connect() that returned
\* nothing because it raised aside), so get_available_sources lists
\* exactly the adapters whose latest probe succeeded.
C25_FlagIsLatestProbe ==
    last.op \in {"init", "connect_all"} =>
        \A n \in Range(sources) :
            last.probes[n] # "raise" =>
                /\ is_connected[n] = last.results[n]
                /\ n \in Range(GetAvailableSources(sources, is_connected))
                        <=> last.probes[n] = "ok"

(***************************************************************************)
(* Properties of the stop-loss and take-profit sides                       *)
(***************************************************************************)
\* C26: every BUY returned by generate_trading_signals has its stop_loss,
\* when set, strictly below entry_price and its take_profit, when set,
\* strictly above it; every SELL has its stop_loss strictly above
\* entry_price and its take_profit strictly below it.
C26_StopLossOnLosingSide ==
    last.op = "signals" =>
        LET r == last.ret.result
        IN  /\ (r.action = "BUY" /\ r.stop_loss # NoValue) => r.stop_loss[1] < r.entry_price[1]
            /\ (r.action = "BUY" /\ r.take_profit # NoValue) =>
                    r.take_profit[1] > r.entry_price[1]
            /\ (r.action = "SELL" /\ r.stop_loss # NoValue) => r.stop_loss[1] > r.entry_price[1]
            /\ (r.action = "SELL" /\ r.take_profit # NoValue) =>
                    r.take_profit[1] < r.entry_price[1]

(***************************************************************************)
(* Properties of the turtle's HOLD                                         *)
(***************************************************************************)
\* C27: with enough bars for both systems, the combined turtle signal is
\* HOLD only when neither system reports an entry or an exit; the exit
\* window lies inside the entry window, so a system that enters also
\* exits, and a System 1 entry turned down for a confidence of at most 0.6
\* (with no System 2 entry) gives EXIT, never HOLD.
C27_HoldMeansNoSignal ==
    (last.op = "turtle" /\ ~last.ret.error) =>
        LET s1 == last.ret.system1
            s2 == last.ret.system2
        IN  /\ last.ret.combined_signal = "HOLD" =>
                    ~Entered(s1) /\ ~Entered(s2) /\ ~Exited(s1) /\ ~Exited(s2)
            /\ Entered(s1) => Exited(s1)
            /\ Entered(s2) => Exited(s2)
            /\ (Entered(s1) /\ ~AboveSixTenths(s1) /\ ~Entered(s2)) =>
                    last.ret.combined_signal = "EXIT"

\* a System 1 short entry of low confidence while System 2 does not enter
C27_Witness ==
    /\ last.op = "turtle"
    /\ ~last.ret.error
    /\ last.ret.system1.entry_signal = "SELL"
    /\ last.ret.system1.exit_signal = "EXIT_LONG"
    /\ ~AboveSixTenths(last.ret.system1)
    /\ ~Entered(last.ret.system2)
    /\ last.ret.system1.confidence.num < 600 * last.ret.system1.confidence.den
    /\ last.ret.combined_signal = "EXIT"

(***************************************************************************)
(* Properties of the manager's primary                                     *)
(***************************************************************************)
\* the primary is unset only on a manager without sources, else registered
PrimaryRegistered ==
    IF sources = <<>> THEN primary_source = None ELSE primary_source \in Range(sources)

\* what one call on the manager may change
ManagerCallEffect ==
    /\ (last'.op = "set_primary" /\ last'.name \notin Range(sources)) =>
            /\ last'.raised
            /\ UNCHANGED <<primary_source, sources>>
    /\ (last'.op = "set_primary" /\ last'.name \in Range(sources)) =>
            /\ ~last'.raised
            /\ primary_source' = last'.name
            /\ UNCHANGED sources
    /\ last'.op = "connect_all" => UNCHANGED <<primary_source, sources>>
    /\ last'.op = "add_source" =>
            /\ last'.name \in Range(sources')
            /\ Range(sources) \subseteq Range(sources')

\* C28: after any sequence of add_source, set_primary_source and
\* connect_all, primary_source is None only if no source was ever added
\* and otherwise names a registered source; set_primary_source with an
\* unregistered name raises and leaves primary_source and sources as they
\* were; connect_all never changes primary_source.
C28_PrimaryAlwaysRegistered ==
    /\ [](created => PrimaryRegistered)
    /\ [][ManagerCallEffect]_vars

\* set_primary_source turned down on a manager that was given a source
\* after it was built
C28_Witness ==
    /\ last.op = "set_primary"
    /\ last.raised
    /\ Range(sources) \ DOMAIN config # {}
    /\ primary_source \in Range(sources)
    /\ last.name \notin Range(sources)

(***************************************************************************)
(* Properties of concurrent first use                                      *)
(***************************************************************************)
Returned(t) == threads[t].pc = "done"

\* C29: when several threads call get_data_source_manager while no manager
\* exists, at most one manager is built and probed, all callers receive the
\* same instance, and no caller receives a manager whose primary has not
\* yet been selected.
C29_OneManagerForAllThreads ==
    /\ built <= 1
    /\ \A t, u \in Threads : (Returned(t) /\ Returned(u)) => threads[t].ret = threads[u].ret
    /\ \A t \in Threads : Returned(t) => threads[t].ret_ready
====
